---- MODULE Spec2Model ----
(***************************************************************************)
(* A model of the AOC-2025 puzzle solvers (src/src/dayNN/partP.rs).        *)
(* Every solver is a pure function solve(input) -> String; each day has    *)
(* its own specification (SpecDay1 .. SpecDay5) whose initial states draw  *)
(* the input text from a bounded set and whose actions are the steps of    *)
(* the solver's loops.  The variables are shared by the days; a day leaves *)
(* the variables it does not use at their idle value.                      *)
(***************************************************************************)
EXTENDS Integers, Sequences, FiniteSets, TLC

VARIABLES
    part,        \* which part's solve is running (1 or 2)
    input,       \* the parsed-from text of the call (per day, see the Init)
    pc,          \* position in solve
    result,      \* solve's accumulator `result` / `dial_zero_count`
    grid,        \* day 4: the padded boolean grid
    height,      \* day 4: grid.len()
    width,       \* day 4: grid[0].len()
    h,           \* day 4: outer loop index
    w,           \* day 4: inner loop index
    removed,     \* day 4 part 2: the sweep's `removed` flag
    sweep_grid,  \* day 4 history: the grid as it was at the head of the sweep
    line,        \* days 1, 2, 3, 5: how many pieces of the split input are consumed
    dial,        \* day 1: solve's `dial`
    dial_zero_count, \* day 1: solve's `dial_zero_count`
    command,     \* day 1: the loop variable `command`, a text
    output,      \* the String solve returns, <<>> until it has returned
    range,       \* day 2: the loop variable `range`, a text
    id,          \* day 2: the argument of is_invalid_id, a text
    is_invalid,  \* day 2: what is_invalid_id returned for id
    bank,        \* day 3: the loop variable `bank`, a text
    joltage,     \* day 3: solve's `joltage`, what find_best_joltage returned
    divider_index, \* day 5: solve's `divider_index`
    value,       \* day 5: solve's `value`, the parsed id
    columns,     \* day 6: what extract_columns returned
    column,      \* day 6: the loop variable `column`
    calculation, \* day 6: what perform_calculation returned for column
    day,         \* run_puzzle: the argument `day`
    input_path,  \* run_puzzle: the argument `input_path`, <<>> for None
    solver,      \* run_puzzle: the argument `solve`, a function of the text
    files,       \* run_puzzle: the file system, what is at each path
    path,        \* run_puzzle: the local `path`
    reads,       \* run_puzzle history: the paths given to fs::read_to_string
    solves,      \* run_puzzle history: the texts given to `solve`
    returned,    \* run_puzzle: the io::Result returned
    pick_i,      \* day 3: find_best_joltage's loop variable `i`
    start_index, \* day 3: find_best_joltage's `start_index`
    found_index, \* day 3: what find_highest_number returned
    picks,       \* day 3 history: the offsets in the bank of the digits taken
    rotation     \* day 1: the locals of a call of rotate_dial, a record

vars4 == <<grid, height, width, h, w, removed, sweep_grid>>
vars1 == <<dial, dial_zero_count, command>>
vars2 == <<range, id, is_invalid>>
vars3 == <<bank, joltage>>
vars5 == <<divider_index, value>>
vars6 == <<columns, column, calculation>>
varsU == <<day, input_path, solver, files, path, reads, solves, returned>>
varsP == <<pick_i, start_index, found_index, picks>>

vars == <<part, input, pc, result, line, output, vars4, vars1, vars2, vars3, vars5, vars6, varsU, varsP, rotation>>

\* What the solvers of the other days leave alone.
NotDay4 == <<line, vars1, vars2, vars3, vars5, vars6, varsU, varsP, rotation>>
NotDay1 == <<input, result, vars4, vars2, vars3, vars5, vars6, varsU, varsP, rotation>>
NotDay2 == <<input, vars4, vars1, vars3, vars5, vars6, varsU, varsP, rotation>>
NotDay3 == <<input, vars4, vars1, vars2, vars5, vars6, varsU, rotation>>
NotDay5 == <<vars4, vars1, vars2, vars3, vars6, varsU, varsP, rotation>>
NotDay6 == <<vars4, vars1, vars2, vars3, vars5, varsU, varsP, rotation>>
NotUtils == <<line, output, vars4, vars1, vars2, vars3, vars5, vars6, varsP, rotation>>

Idle1 == dial = 0 /\ dial_zero_count = 0 /\ command = <<>>
Idle2 == range = <<>> /\ id = <<>> /\ is_invalid = FALSE
Idle3 == bank = <<>> /\ joltage = <<>>
Idle5 == divider_index = 0 /\ value = 0
Idle6 == columns = <<>> /\ column = <<>> /\ calculation = 0
IdleU ==
    /\ day = 0 /\ input_path = <<>> /\ solver = <<>> /\ files = <<>>
    /\ path = <<>> /\ reads = <<>> /\ solves = <<>> /\ returned = <<>>
IdleP == pick_i = 0 /\ start_index = 0 /\ found_index = 0 /\ picks = <<>>
IdleR == rotation = <<>>

(***************************************************************************)
(* Text: decimal digits, str::parse and to_string                          *)
(***************************************************************************)
DigitChars == <<"0", "1", "2", "3", "4", "5", "6", "7", "8", "9">>

IsDigit(c) == \E d \in 1..10 : DigitChars[d] = c

DigitValue(c) == (CHOOSE d \in 1..10 : DigitChars[d] = c) - 1

\* What str::parse accepts here: a non-empty run of decimal digits.
IsNumber(text) == Len(text) > 0 /\ \A k \in 1..Len(text) : IsDigit(text[k])

\* str::parse::<i32/i64>().unwrap() of a run of decimal digits.
RECURSIVE ParseInt(_)
ParseInt(text) ==
    IF Len(text) = 0 THEN 0
    ELSE 10 * ParseInt(SubSeq(text, 1, Len(text) - 1)) + DigitValue(text[Len(text)])

\* to_string of a non-negative integer.
RECURSIVE to_string(_)
to_string(n) ==
    IF n < 10 THEN <<DigitChars[n + 1]>>
    ELSE Append(to_string(n \div 10), DigitChars[(n % 10) + 1])

\* str::split(sep).collect(): the pieces between the separators.
RECURSIVE split(_, _)
split(text, sep) ==
    IF \A k \in 1..Len(text) : text[k] # sep
    THEN <<text>>
    ELSE LET k == CHOOSE k \in 1..Len(text) :
                     text[k] = sep /\ \A j \in 1..(k - 1) : text[j] # sep
         IN  <<SubSeq(text, 1, k - 1)>> \o split(SubSeq(text, k + 1, Len(text)), sep)

\* The subsets of S of at most m elements.
RECURSIVE SubsetsUpTo(_, _)
SubsetsUpTo(S, m) ==
    IF m = 0 THEN {{}}
    ELSE LET less == SubsetsUpTo(S, m - 1)
         IN  less \cup { s \cup {e} : s \in less, e \in S }

(***************************************************************************)
(* Day 4: grid erosion                                                     *)
(***************************************************************************)

\* Bounds of the day 4 inputs: grids of at most MaxH x MaxW characters with
\* at most MaxHoles characters other than '@'.
MaxH == 4
MaxW == 4
MaxHoles == 1

\* The threshold of both solve functions: `count_rolls_around_position(..) < 4`.
MinNeighbours == 4

Parts == {1, 2}

\* A rectangular text of H lines of W characters, '@' everywhere but on holes.
GridText(H, W, holes) ==
    [r \in 1..H |-> [c \in 1..W |-> IF <<r, c>> \in holes THEN "." ELSE "@"]]

Inputs4 ==
    UNION { { GridText(H, W, holes) :
                holes \in SubsetsUpTo((1..H) \X (1..W), MaxHoles) } :
            H \in 1..MaxH, W \in 1..MaxW }

\* parse_input_to_bool_grid: one row per line, c == '@' per character
\* (rows are indexed from 0 as the Vec is).
parse_input_to_bool_grid(text) ==
    [r \in 0..(Len(text) - 1) |->
        [c \in 0..(Len(text[r + 1]) - 1) |-> text[r + 1][c + 1] = "@"]]

RowLen(row) == Cardinality(DOMAIN row)

\* pad_grid: a row of false above and below, then false before and after
\* every row.
pad_gridMutant(g) ==
    LET rows == Cardinality(DOMAIN g)
        wd   == RowLen(g[0])
    IN  [r \in 0..(rows + 1) |->
            [c \in 0..(wd + 1) |->
                IF r = 0 \/ r = rows + 1 \/ c = 0 \/ c = wd + 1
                THEN r = rows + 1 /\ c = wd + 1
                ELSE g[r - 1][c - 1]]]

pad_grid(g) ==
    LET rows == Cardinality(DOMAIN g)
        wd   == RowLen(g[0])
    IN  [r \in 0..(rows + 1) |->
            [c \in 0..(wd + 1) |->
                IF r = 0 \/ r = rows + 1 \/ c = 0 \/ c = wd + 1
                THEN FALSE
                ELSE g[r - 1][c - 1]]]

B2I(b) == IF b THEN 1 ELSE 0

\* count_rolls_around_position: the eight `if grid[..][..] { count += 1 }`.
count_rolls_around_positionMutant(g, hh, ww) ==
      B2I(sweep_grid[hh - 1][ww - 1]) + B2I(sweep_grid[hh - 1][ww])
    + B2I(sweep_grid[hh - 1][ww + 1]) + B2I(sweep_grid[hh][ww - 1])
    + B2I(sweep_grid[hh][ww + 1])     + B2I(sweep_grid[hh + 1][ww - 1])
    + B2I(sweep_grid[hh + 1][ww])     + B2I(sweep_grid[hh + 1][ww + 1])

count_rolls_around_position(g, hh, ww) ==
      B2I(g[hh - 1][ww - 1]) + B2I(g[hh - 1][ww]) + B2I(g[hh - 1][ww + 1])
    + B2I(g[hh][ww - 1])                          + B2I(g[hh][ww + 1])
    + B2I(g[hh + 1][ww - 1]) + B2I(g[hh + 1][ww]) + B2I(g[hh + 1][ww + 1])

\* The test of both loops' bodies: `if !grid[h][w] { continue; }` and then
\* `if count_rolls_around_position(&grid, h, w) < 4`.
RemovableMutant(g, hh, ww) ==
    g[hh][ww] /\ count_rolls_around_position(g, hh, ww) > MinNeighbours

Removable(g, hh, ww) ==
    g[hh][ww] /\ count_rolls_around_position(g, hh, ww) < MinNeighbours

\* The body of part 2's inner loop on the triple (grid, result, removed).
VisitCell2Mutant(g, hh, ww, res, rem) ==
    IF Removable(g, hh, ww)
    THEN [grid |-> [g EXCEPT ![hh][ww] = FALSE], result |-> res + 1, removed |-> TRUE]
    ELSE [grid |-> g, result |-> res, removed |-> rem \/ g[hh][ww]]

VisitCell2(g, hh, ww, res, rem) ==
    IF Removable(g, hh, ww)
    THEN [grid |-> [g EXCEPT ![hh][ww] = FALSE], result |-> res + 1, removed |-> TRUE]
    ELSE [grid |-> g, result |-> res, removed |-> rem]

\* The body of part 1's inner loop on `result` (the grid is only read).
VisitCell1Mutant(g, hh, ww, res) ==
    IF g[hh][ww] /\ count_rolls_around_position(g, hh, ww) <= MinNeighbours
    THEN res + 1 ELSE res

VisitCell1(g, hh, ww, res) ==
    IF Removable(g, hh, ww) THEN res + 1 ELSE res

Idle4 ==
    /\ grid = <<>> /\ height = 0 /\ width = 0 /\ h = 0 /\ w = 0
    /\ removed = FALSE /\ sweep_grid = <<>>

InitDay4 ==
    /\ part \in Parts
    /\ input \in Inputs4
    /\ pc = "start"
    /\ result = 0
    /\ output = <<>>
    /\ Idle4 /\ IdleR
    /\ line = 0 /\ Idle1 /\ Idle2 /\ Idle3 /\ Idle5 /\ Idle6 /\ IdleU /\ IdleP

\* solve, up to the loops: parse, pad, height and width.
ParseAndPad ==
    /\ pc = "start"
    /\ LET g == pad_grid(parse_input_to_bool_grid(input))
       IN  /\ grid' = g
           /\ height' = Cardinality(DOMAIN g)
           /\ width' = RowLen(g[0])
           /\ sweep_grid' = g
    /\ result' = 0
    /\ pc' = IF part = 1 THEN "scan" ELSE "loop"
    /\ h' = 1 /\ w' = 1
    /\ UNCHANGED <<part, input, removed, output, NotDay4>>

\* `for h in 1..(height - 1) { for w in 1..(width - 1)`: the cell after (h, w),
\* or the end of the ranges.
LastCellMutant == h = height - 2

LastCell == h = height - 2 /\ w = width - 2
NextH == IF w = width - 2 THEN h + 1 ELSE h
NextW == IF w = width - 2 THEN 1 ELSE w + 1

\* Part 1: one iteration of the inner loop.
Visit1 ==
    /\ pc = "scan" /\ part = 1
    /\ result' = VisitCell1(grid, h, w, result)
    /\ IF LastCell
       THEN pc' = "done" /\ output' = to_string(result') /\ UNCHANGED <<h, w>>
       ELSE pc' = "scan" /\ h' = NextH /\ w' = NextW /\ UNCHANGED output
    /\ UNCHANGED <<part, input, grid, height, width, removed, sweep_grid, NotDay4>>

\* Part 2: the head of `loop`: `let mut removed = false`.
SweepStart ==
    /\ pc = "loop" /\ part = 2
    /\ removed' = FALSE
    /\ h' = 1 /\ w' = 1
    /\ sweep_grid' = grid
    /\ pc' = "scan"
    /\ UNCHANGED <<part, input, result, grid, height, width, output, NotDay4>>

\* Part 2: one iteration of the inner loop.
Visit2Mutant ==
    /\ pc = "scan" /\ part = 2
    /\ LET v == VisitCell2(grid, h, w, result, removed)
       IN  /\ grid' = v.grid
           /\ result' = IF h = 1 THEN result ELSE v.result
           /\ removed' = v.removed
    /\ IF LastCell
       THEN pc' = "endsweep" /\ UNCHANGED <<h, w>>
       ELSE pc' = "scan" /\ h' = NextH /\ w' = NextW
    /\ UNCHANGED <<part, input, height, width, sweep_grid, output, NotDay4>>

Visit2 ==
    /\ pc = "scan" /\ part = 2
    /\ LET v == VisitCell2(grid, h, w, result, removed)
       IN  /\ grid' = v.grid
           /\ result' = v.result
           /\ removed' = v.removed
    /\ IF LastCell
       THEN pc' = "endsweep" /\ UNCHANGED <<h, w>>
       ELSE pc' = "scan" /\ h' = NextH /\ w' = NextW
    /\ UNCHANGED <<part, input, height, width, sweep_grid, output, NotDay4>>

\* Part 2: `if !removed { break; }`.
SweepEndMutant ==
    /\ pc = "endsweep" /\ part = 2
    /\ pc' = "done"
    /\ output' = to_string(result)
    /\ UNCHANGED <<part, input, result, grid, height, width, h, w, removed, sweep_grid, NotDay4>>

SweepEnd ==
    /\ pc = "endsweep" /\ part = 2
    /\ pc' = IF removed THEN "loop" ELSE "done"
    /\ output' = IF removed THEN output ELSE to_string(result)
    /\ UNCHANGED <<part, input, result, grid, height, width, h, w, removed, sweep_grid, NotDay4>>

NextDay4 == ParseAndPad \/ Visit1 \/ SweepStart \/ Visit2 \/ SweepEnd

SpecDay4 == InitDay4 /\ [][NextDay4]_vars

\* solve runs to completion: no step is ever postponed forever.
FairSpecDay4 == SpecDay4 /\ WF_vars(NextDay4)

(***************************************************************************)
(* Day 4: the loops of part 2 as one function of the grid, with the order  *)
(* in which a sweep visits the cells as a parameter.  "row_major" is the   *)
(* order of solve (`for h .. { for w ..`); the others are the orders the   *)
(* specification compares it with.                                         *)
(***************************************************************************)
Orders == {"row_major", "column_major", "reversed_row_major"}

\* The k-th cell (k = 1 ..) a sweep visits in a padded grid of ht x wd.
CellAt(order, ht, wd, k) ==
    LET n == (ht - 2) * (wd - 2)
        j == IF order = "reversed_row_major" THEN n - k ELSE k - 1
    IN  IF order = "column_major"
        THEN <<1 + (j % (ht - 2)), 1 + (j \div (ht - 2))>>
        ELSE <<1 + (j \div (wd - 2)), 1 + (j % (wd - 2))>>

\* One sweep from its k-th cell on: the two nested `for` loops.
RECURSIVE SweepFrom(_, _, _)
SweepFrom(st, order, k) ==
    LET ht == Cardinality(DOMAIN st.grid)
        wd == RowLen(st.grid[0])
    IN  IF k > (ht - 2) * (wd - 2)
        THEN st
        ELSE LET cell == CellAt(order, ht, wd, k)
             IN  SweepFrom(VisitCell2(st.grid, cell[1], cell[2], st.result, st.removed),
                           order, k + 1)

Sweep(g, res, order) ==
    SweepFrom([grid |-> g, result |-> res, removed |-> FALSE], order, 1)

\* `loop { .. if !removed { break; } }`: sweeps until one removes nothing.
RECURSIVE ErodeLoop(_, _, _)
ErodeLoop(g, res, order) ==
    LET st == Sweep(g, res, order)
    IN  IF st.removed THEN ErodeLoop(st.grid, st.result, order) ELSE st

\* The total solve returns for a text, were its sweeps run in `order`.
ErodeTotal(text, order) ==
    ErodeLoop(pad_grid(parse_input_to_bool_grid(text)), 0, order).result

(***************************************************************************)
(* Day 4: claims                                                           *)
(***************************************************************************)
Padded == pad_grid(parse_input_to_bool_grid(input))

InnerCells == (1..(height - 2)) \X (1..(width - 2))

Rolls(g) == { cell \in InnerCells : g[cell[1]][cell[2]] }

\* C1: part 2 terminates on every grid: solve reaches its return, a cell once
\* unoccupied is never occupied again, and at the end of a sweep the loop
\* goes round again exactly when the sweep removed at least one cell and
\* stops exactly when it removed none.
C1_ErosionTerminates ==
    /\ (part = 2) => <>(pc = "done")
    /\ [][(part = 2 /\ pc # "start")
            => \A cell \in InnerCells :
                 ~grid[cell[1]][cell[2]] => ~grid'[cell[1]][cell[2]]]_vars
    /\ [][(part = 2 /\ pc = "endsweep")
            => /\ (pc' = "loop") <=> (Rolls(grid) # Rolls(sweep_grid))
               /\ (pc' = "done") <=> (grid = sweep_grid)
               /\ Rolls(grid) \subseteq Rolls(sweep_grid)]_vars

\* C1 witness: part 2 has returned after removing cells and the grid it
\* stopped on still has occupied cells.
C1_Witness ==
    /\ part = 2 /\ pc = "done"
    /\ result > 0
    /\ Rolls(grid) # {}
    /\ grid = sweep_grid

\* C2 as stated: some grid (the one being solved or any other of the
\* bounded set) has a total that differs between the row-major order of
\* solve and another order of the same in-place sweeps.
C2_OrderSensitive ==
    \E text \in Inputs4 \cup {input} : \E order \in Orders :
        ErodeTotal(text, order) # ErodeTotal(text, "row_major")

\* C2 as amended: the total part 2 returns is the total of the same
\* in-place sweeps run column-major or reversed row-major: the order within
\* a sweep changes which cells a sweep removes, never the total.
C2_OrderInsensitive ==
    (part = 2 /\ pc = "done")
        => \A order \in Orders : ErodeTotal(input, order) = result

\* C2 witness: part 2 has returned for a grid on which the first sweep
\* removes different cells column-major than row-major.
C2_Witness ==
    /\ part = 2 /\ pc = "done" /\ result > 0
    /\ Sweep(Padded, 0, "column_major").grid # Sweep(Padded, 0, "row_major").grid

\* The occupied neighbours of character (r, c) of the text, counted on the
\* text itself (positions outside the text are not occupied).
TextNeighbours(text, r, c) ==
    { d \in ((-1)..1) \X ((-1)..1) :
        /\ d # <<0, 0>>
        /\ r + d[1] \in 1..Len(text)
        /\ c + d[2] \in 1..Len(text[1])
        /\ text[r + d[1]][c + d[2]] = "@" }

RemovableInText(text) ==
    { cell \in (1..Len(text)) \X (1..Len(text[1])) :
        /\ text[cell[1]][cell[2]] = "@"
        /\ Cardinality(TextNeighbours(text, cell[1], cell[2])) < 4 }

\* C10: part 1 returns the number of occupied cells of the initial grid with
\* fewer than 4 occupied cells among their 8 neighbours, and the grid is the
\* padded initial grid throughout the pass (it is never written).
C10_SinglePassCount ==
    /\ (part = 1 /\ pc = "done") => result = Cardinality(RemovableInText(input))
    /\ (part = 1 /\ pc # "start") => grid = Padded

\* C10 witness: part 1 has returned a non-zero count for a grid that has an
\* occupied cell with all 8 neighbours occupied.
C10_Witness ==
    /\ part = 1 /\ pc = "done" /\ result > 0
    /\ \E cell \in InnerCells :
         grid[cell[1]][cell[2]] /\ count_rolls_around_position(grid, cell[1], cell[2]) = 8

\* The place of cell (hh, ww) in the row-major order of the original cells,
\* from 0.
CellIndex(hh, ww) == (hh - 1) * (width - 2) + (ww - 1)

\* How many of the 8 neighbours of (hh, ww) are occupied in g.
OccupiedAround(g, hh, ww) ==
    Cardinality({ d \in ((-1)..1) \X ((-1)..1) :
                    d # <<0, 0>> /\ g[hh + d[1]][ww + d[2]] })

\* C14: a sweep of part 2 starts at the top-left cell and goes through the
\* cells in row-major order; the cells it has not reached yet are as they
\* were at the head of the sweep; the cell it is at is removed exactly when
\* it is occupied and has fewer than 4 occupied neighbours in the grid as it
\* is now, the removals made earlier in the sweep included; a removal
\* changes that cell only and adds exactly 1 to result, and a visit without
\* a removal changes neither the grid nor result.
C14_ImmediateRemoval ==
    /\ [][(part = 2 /\ pc = "loop")
            => (pc' = "scan" /\ h' = 1 /\ w' = 1 /\ grid' = grid /\ result' = result)]_vars
    /\ [][(part = 2 /\ pc = "scan")
            => /\ IF CellIndex(h, w) = (height - 2) * (width - 2) - 1
                  THEN pc' = "endsweep"
                  ELSE /\ pc' = "scan"
                       /\ <<h', w'>> \in InnerCells
                       /\ CellIndex(h', w') = CellIndex(h, w) + 1
               /\ \A cell \in InnerCells :
                    CellIndex(cell[1], cell[2]) >= CellIndex(h, w)
                        => grid[cell[1]][cell[2]] = sweep_grid[cell[1]][cell[2]]
               /\ IF grid[h][w] /\ OccupiedAround(grid, h, w) < 4
                  THEN /\ grid' = [grid EXCEPT ![h][w] = FALSE]
                       /\ result' = result + 1
                  ELSE /\ grid' = grid
                       /\ result' = result]_vars

\* C14 witness: in the sweep under way a cell has been removed that had 4
\* occupied neighbours or more at the head of the sweep: a neighbour of it
\* was removed before it in the same sweep.
C14_Witness ==
    /\ part = 2 /\ pc = "scan"
    /\ \E cell \in InnerCells :
         /\ CellIndex(cell[1], cell[2]) < CellIndex(h, w)
         /\ sweep_grid[cell[1]][cell[2]] /\ ~grid[cell[1]][cell[2]]
         /\ OccupiedAround(sweep_grid, cell[1], cell[2]) >= 4

\* The occupied characters of a text.
OccupiedInText(text) ==
    { cell \in (1..Len(text)) \X (1..Len(text[1])) : text[cell[1]][cell[2]] = "@" }

\* C15: when part 2 has stopped, every occupied cell of the grid has at
\* least 4 occupied neighbours, and the total returned is the number of
\* cells occupied in the input less the number still occupied.
C15_StopsOnFixedPoint ==
    (part = 2 /\ pc = "done")
        => /\ \A cell \in Rolls(grid) : OccupiedAround(grid, cell[1], cell[2]) >= 4
           /\ result = Cardinality(OccupiedInText(input)) - Cardinality(Rolls(grid))
           /\ IsNumber(output) /\ ParseInt(output) = result

\* C15 witness: part 2 has returned 3 or more on a grid that still has 4
\* occupied cells or more.
C15_Witness ==
    /\ part = 2 /\ pc = "done"
    /\ result >= 3
    /\ Cardinality(Rolls(grid)) >= 4
    /\ Cardinality(OccupiedInText(input)) = result + Cardinality(Rolls(grid))
    /\ output = to_string(result)

\* The lines and the characters per line of the input grid.
InputH == Len(input)
InputW == Len(input[1])

\* The cells of the border of the padded grid.
Border ==
    { <<r, c>> \in (0..(InputH + 1)) \X (0..(InputW + 1)) :
        r = 0 \/ r = InputH + 1 \/ c = 0 \/ c = InputW + 1 }

\* C21: once the grid of an H x W input is padded it has H + 2 rows of
\* W + 2 cells; a sweep is on a cell of 1..H x 1..W, starts on (1, 1), goes
\* from a cell to its row-major successor and ends on (H, W); the eight
\* neighbours of the cell it is on are cells of the padded grid; and the
\* cells of the border are unoccupied.
C21_PaddedBorder ==
    /\ [](pc # "start"
            => /\ height = InputH + 2 /\ width = InputW + 2
               /\ DOMAIN grid = 0..(InputH + 1)
               /\ \A r \in DOMAIN grid : DOMAIN grid[r] = 0..(InputW + 1)
               /\ \A b \in Border : ~grid[b[1]][b[2]]
               /\ h \in 1..InputH /\ w \in 1..InputW
               /\ \A dh \in {-1, 0, 1} : \A dw \in {-1, 0, 1} :
                    /\ h + dh \in DOMAIN grid
                    /\ w + dw \in DOMAIN grid[h + dh]
               /\ pc \in {"endsweep", "done"} => (h = InputH /\ w = InputW))
    /\ [][(pc' = "scan" /\ pc # "scan") => (h' = 1 /\ w' = 1)]_vars
    /\ [][(pc = "scan" /\ pc' = "scan")
            => CellIndex(h', w') = CellIndex(h, w) + 1]_vars

\* C21 witness: part 2 is on the last cell of a MaxH x MaxW input in a sweep
\* that has removed the cell in the opposite corner, next to the border.
C21_Witness ==
    /\ part = 2 /\ pc = "scan"
    /\ InputH = MaxH /\ InputW = MaxW
    /\ h = InputH /\ w = InputW
    /\ sweep_grid[1][1] /\ ~grid[1][1]
    /\ ~grid[0][0] /\ ~grid[InputH + 1][InputW + 1]

\* The cells of S next to a cell, and the sets in which every cell has 4
\* or more of its 8 neighbours.
NeighboursIn(S, cell) ==
    { d \in S : /\ d # cell
                /\ d[1] - cell[1] \in (-1)..1
                /\ d[2] - cell[2] \in (-1)..1 }

Stable(S) == \A cell \in S : Cardinality(NeighboursIn(S, cell)) >= 4

\* What is left of S when the cells with fewer than 4 neighbours are taken
\* away all at once, again and again, until none is.
RECURSIVE Core(_)
Core(S) ==
    LET kept == { cell \in S : Cardinality(NeighboursIn(S, cell)) >= 4 }
    IN  IF kept = S THEN S ELSE Core(kept)

\* The subsets of the occupied cells are enumerated on the inputs of at most
\* MaxSubsetCells characters.
MaxSubsetCells == 16

\* C24: when part 2 has stopped, the occupied cells are a set of initially
\* occupied cells in which every cell has 4 or more neighbours, every such
\* set is within it (it is what taking the cells with fewer than 4
\* neighbours away all at once, repeatedly, leaves), and the total returned
\* is the number of initially occupied cells outside it.
C24_LargestStableSubset ==
    (part = 2 /\ pc = "done")
        => /\ Rolls(grid) \subseteq OccupiedInText(input)
           /\ Stable(Rolls(grid))
           /\ Rolls(grid) = Core(OccupiedInText(input))
           /\ InputH * InputW <= MaxSubsetCells
                => \A S \in SUBSET OccupiedInText(input) :
                      Stable(S) => S \subseteq Rolls(grid)
           /\ result = Cardinality(OccupiedInText(input) \ Rolls(grid))

\* C24 witness: part 2 has stopped on a grid of MaxSubsetCells characters,
\* one of them a hole, having removed 3 cells and left 12.
C24_Witness ==
    /\ part = 2 /\ pc = "done"
    /\ InputH * InputW = MaxSubsetCells
    /\ Cardinality(OccupiedInText(input)) = MaxSubsetCells - 1
    /\ Cardinality(Rolls(grid)) = 12
    /\ result = 3

\* The cells part 1 counts: those its test holds for in the padded input.
CountedByPart1 ==
    { cell \in InnerCells : Removable(Padded, cell[1], cell[2]) }

\* C25: part 1 returns the number of cells its test holds for in the initial
\* grid; at the end of the first sweep of part 2 every one of these cells is
\* removed and the total is at least their number, and so is the total
\* part 2 returns.
C25_Part2AtLeastPart1 ==
    /\ (part = 1 /\ pc = "done") => result = Cardinality(CountedByPart1)
    /\ (part = 2 /\ pc = "endsweep" /\ sweep_grid = Padded)
         => /\ \A cell \in CountedByPart1 : ~grid[cell[1]][cell[2]]
            /\ result >= Cardinality(CountedByPart1)
    /\ (part = 2 /\ pc = "done") => result >= Cardinality(CountedByPart1)

\* C25 witness: part 2 has returned more than the 4 or more cells part 1
\* counts on the same input.
C25_Witness ==
    /\ part = 2 /\ pc = "done"
    /\ Cardinality(CountedByPart1) >= 4
    /\ result > Cardinality(CountedByPart1)

(***************************************************************************)
(* Day 1: the dial                                                         *)
(***************************************************************************)

\* Bounds of the day 1 inputs: at most MaxCommands lines, of magnitudes up
\* to MaxLaps full turns and 99 more.
MaxCommands == 2
MaxLaps == 1

\* `let mut dial = 50`, `if updated > 99`.
DialStart == 50
DialMax == 99

Magnitudes == { m \in 0..(100 * MaxLaps + 99) : m % 50 \in {0, 1, 49} }

Commands == { <<d>> \o to_string(m) : d \in {"R", "L"}, m \in Magnitudes }

\* The pieces `input.split("\n")` can yield: commands, an empty line, a
\* letter with no number.
Lines1 == Commands \cup {<<>>, <<"R">>}

\* `command.starts_with("R")`.
starts_with_R(text) == Len(text) > 0 /\ text[1] = "R"

\* `command[1..].parse().unwrap()` panics: the slice is out of range or the
\* rest is no number.
RotatePanics(text) == IF Len(text) < 1 THEN TRUE ELSE ~IsNumber(Tail(text))

\* Part 2: one iteration of the `while count > 0` loop of rotate_dial on
\* the pair (updated, zero_passes).
rotate_step2Mutant(right, st) ==
    LET moved   == IF right THEN st[1] + 1 ELSE st[1] - 1
        over    == IF moved > DialMax THEN 0 ELSE moved
        wrapped == IF over < 0 THEN DialMax ELSE over
    IN  <<wrapped, IF st[1] = 0 THEN st[2] + 1 ELSE st[2]>>

rotate_step2(right, st) ==
    LET moved   == IF right THEN st[1] + 1 ELSE st[1] - 1
        over    == IF moved > DialMax THEN 0 ELSE moved
        wrapped == IF over < 0 THEN DialMax ELSE over
    IN  <<wrapped, IF wrapped = 0 THEN st[2] + 1 ELSE st[2]>>

\* Part 2: the loop, `count` iterations of its body one after the other
\* (evaluated by halves: the first count \div 2 iterations, then the rest;
\* the test on `half` only makes the evaluator finish the first half before
\* it starts the second, and is always true).
RECURSIVE rotate_loop2Mutant(_, _, _)
rotate_loop2Mutant(right, count, st) ==
    IF count <= 1 THEN rotate_step2(right, st)
    ELSE rotate_loop2Mutant(right, count - 1, rotate_step2(right, st))

RECURSIVE rotate_loop2(_, _, _)
rotate_loop2(right, count, st) ==
    IF count <= 0 THEN st
    ELSE IF count = 1 THEN rotate_step2(right, st)
    ELSE LET half == rotate_loop2(right, count \div 2, st)
         IN  IF half[1] = half[1]
             THEN rotate_loop2(right, count - (count \div 2), half)
             ELSE half

\* Part 2: rotate_dial(start_position, command) -> (updated, zero_passes).
rotate_dial2(start_position, text) ==
    rotate_loop2(starts_with_R(text), ParseInt(Tail(text)), <<start_position, 0>>)

\* Part 1: one iteration of the `while count > 0` loop of rotate_dial.
rotate_step1Mutant(right, updated) ==
    LET moved   == IF right THEN updated + 1 ELSE updated - 1
        over    == IF moved > DialMax THEN 0 ELSE moved
        wrapped == IF over < 0 THEN 0 ELSE over
    IN  wrapped

rotate_step1(right, updated) ==
    LET moved   == IF right THEN updated + 1 ELSE updated - 1
        over    == IF moved > DialMax THEN 0 ELSE moved
        wrapped == IF over < 0 THEN DialMax ELSE over
    IN  wrapped

\* Part 1: the loop (evaluated by halves, as rotate_loop2).
RECURSIVE rotate_loop1(_, _, _)
rotate_loop1(right, count, updated) ==
    IF count <= 0 THEN updated
    ELSE IF count = 1 THEN rotate_step1(right, updated)
    ELSE LET half == rotate_loop1(right, count \div 2, updated)
         IN  IF half = half
             THEN rotate_loop1(right, count - (count \div 2), half)
             ELSE half

\* Part 1: rotate_dial(start_position, command) -> updated.
rotate_dial1(start_position, text) ==
    rotate_loop1(starts_with_R(text), ParseInt(Tail(text)), start_position)

\* Part 1: the body of solve's loop on (dial, dial_zero_count).
solve_body1Mutant(d, cnt, text) ==
    LET u == rotate_dial2(d, text)
    IN  [dial |-> u[1], dial_zero_count |-> IF u[2] > 0 THEN cnt + 1 ELSE cnt]

solve_body1(d, cnt, text) ==
    LET nd == rotate_dial1(d, text)
    IN  [dial |-> nd, dial_zero_count |-> IF nd = 0 THEN cnt + 1 ELSE cnt]

\* Part 2: the body of solve's loop on (dial, dial_zero_count).
solve_body2Mutant(d, cnt, text) ==
    LET update == rotate_dial2(d, text)
    IN  [dial |-> update[1],
         dial_zero_count |-> IF update[1] = 0 THEN cnt ELSE cnt + update[2]]

solve_body2(d, cnt, text) ==
    LET update == rotate_dial2(d, text)
    IN  [dial |-> update[1], dial_zero_count |-> cnt + update[2]]

InitDay1 ==
    /\ part \in Parts
    /\ pc = "loop"
    /\ dial = DialStart
    /\ dial_zero_count = 0
    /\ command = <<>>
    /\ line = 0
    /\ output = <<>>
    /\ result = 0
    /\ input = <<>>
    /\ Idle4 /\ Idle2 /\ Idle3 /\ Idle5 /\ Idle6 /\ IdleU /\ IdleP /\ IdleR

\* Part 1: one iteration of `for command in commands`.
Rotate1 ==
    /\ pc = "loop" /\ part = 1 /\ line < MaxCommands
    /\ \E text \in Lines1 :
         /\ ~RotatePanics(text)
         /\ command' = text
         /\ LET b == solve_body1(dial, dial_zero_count, text)
            IN  dial' = b.dial /\ dial_zero_count' = b.dial_zero_count
    /\ line' = line + 1
    /\ UNCHANGED <<part, pc, output, NotDay1>>

\* Part 2: one iteration of `for command in commands`.
Rotate2 ==
    /\ pc = "loop" /\ part = 2 /\ line < MaxCommands
    /\ \E text \in Lines1 :
         /\ ~RotatePanics(text)
         /\ command' = text
         /\ LET b == solve_body2(dial, dial_zero_count, text)
            IN  dial' = b.dial /\ dial_zero_count' = b.dial_zero_count
    /\ line' = line + 1
    /\ UNCHANGED <<part, pc, output, NotDay1>>

\* Either part: rotate_dial panics on the next piece, and solve with it.
RotateAbort ==
    /\ pc = "loop" /\ line < MaxCommands
    /\ \E text \in Lines1 :
         /\ RotatePanics(text)
         /\ command' = text
    /\ line' = line + 1
    /\ pc' = "panicked"
    /\ UNCHANGED <<part, output, dial, dial_zero_count, NotDay1>>

\* Either part: the pieces are exhausted (split yields at least one):
\* `return dial_zero_count.to_string()`.
Return1 ==
    /\ pc = "loop" /\ line >= 1
    /\ output' = to_string(dial_zero_count)
    /\ pc' = "done"
    /\ UNCHANGED <<part, line, dial, dial_zero_count, command, NotDay1>>

NextDay1 == Rotate1 \/ Rotate2 \/ RotateAbort \/ Return1

SpecDay1 == InitDay1 /\ [][NextDay1]_vars

\* rotate_dial on its own, one iteration of its loop at a time: from every
\* position of the dial, the commands of magnitudes next to a number of full
\* turns, up to MaxDialLaps of them.
MaxDialLaps == 2

Positions == 0..DialMax

DialMagnitudes == { m \in 0..(100 * MaxDialLaps) : m % 100 \in {0, 1, 99} }

DialCommands == { <<d>> \o to_string(m) : d \in {"R", "L"}, m \in DialMagnitudes }

\* rotate_dial(start_position, command) at the head of `while count > 0`
\* (part 1 has no zero_passes: the field stays 0).
InitDay1Dial ==
    /\ part \in Parts
    /\ pc = "while"
    /\ command \in DialCommands
    /\ \E p \in Positions :
         rotation = [start_position |-> p,
                     right          |-> starts_with_R(command),
                     count          |-> ParseInt(Tail(command)),
                     updated        |-> p,
                     zero_passes    |-> 0]
    /\ dial = 0 /\ dial_zero_count = 0
    /\ line = 0 /\ output = <<>> /\ result = 0 /\ input = <<>>
    /\ Idle4 /\ Idle2 /\ Idle3 /\ Idle5 /\ Idle6 /\ IdleU /\ IdleP

\* Part 1: one iteration of `while count > 0`.
StepDial1 ==
    /\ pc = "while" /\ part = 1 /\ rotation.count > 0
    /\ rotation' = [rotation EXCEPT
                      !.updated = rotate_step1(rotation.right, @),
                      !.count   = @ - 1]
    /\ UNCHANGED <<part, pc, line, output, vars1, input, result, vars4, vars2,
                   vars3, vars5, vars6, varsU, varsP>>

\* Part 2: one iteration of `while count > 0`.
StepDial2Mutant ==
    /\ pc = "while" /\ part = 2 /\ rotation.count > 0
    /\ LET st == rotate_step2(rotation.right, <<rotation.updated, 0>>)
       IN  rotation' = [rotation EXCEPT
                          !.updated     = st[1],
                          !.zero_passes = st[2],
                          !.count       = @ - 1]
    /\ UNCHANGED <<part, pc, line, output, vars1, input, result, vars4, vars2,
                   vars3, vars5, vars6, varsU, varsP>>

StepDial2 ==
    /\ pc = "while" /\ part = 2 /\ rotation.count > 0
    /\ LET st == rotate_step2(rotation.right,
                              <<rotation.updated, rotation.zero_passes>>)
       IN  rotation' = [rotation EXCEPT
                          !.updated     = st[1],
                          !.zero_passes = st[2],
                          !.count       = @ - 1]
    /\ UNCHANGED <<part, pc, line, output, vars1, input, result, vars4, vars2,
                   vars3, vars5, vars6, varsU, varsP>>

\* Either part: the loop is over, `return updated` or
\* `return (updated, zero_passes)`.
ReturnDial ==
    /\ pc = "while" /\ rotation.count <= 0
    /\ pc' = "returned"
    /\ UNCHANGED <<part, line, output, vars1, rotation, input, result, vars4,
                   vars2, vars3, vars5, vars6, varsU, varsP>>

NextDay1Dial == StepDial1 \/ StepDial2 \/ ReturnDial

SpecDay1Dial == InitDay1Dial /\ [][NextDay1Dial]_vars

\* solve on a whole input: at most MaxLines1 lines of SolveLines, joined
\* by "\n". The lines are commands of magnitude 0, of half a turn, of one
\* step, of a turn and a half, a number after a character that is no
\* direction, a direction without a number, and the empty line.
MaxLines1 == 3

SolveLines ==
    { <<"R", "0">>, <<"L", "0">>, <<"R", "0", "0">>,
      <<"R", "5", "0">>, <<"L", "5", "0">>, <<"L", "1">>,
      <<"R", "1", "5", "0">>, <<"X", "1">>, <<"R">>, <<>> }

RECURSIVE InputsOfLines(_)
InputsOfLines(n) ==
    IF n = 1 THEN SolveLines
    ELSE { t \o <<"\n">> \o l : t \in InputsOfLines(n - 1), l \in SolveLines }

Inputs1 == UNION { InputsOfLines(n) : n \in 1..MaxLines1 }

\* `let commands = input.split("\n")`.
commands_of(text) == split(text, "\n")

InitDay1Solve ==
    /\ part \in Parts
    /\ input \in Inputs1
    /\ pc = "loop"
    /\ dial = DialStart
    /\ dial_zero_count = 0
    /\ command = <<>>
    /\ line = 0
    /\ output = <<>>
    /\ result = 0
    /\ Idle4 /\ Idle2 /\ Idle3 /\ Idle5 /\ Idle6 /\ IdleU /\ IdleP /\ IdleR

\* Part 1: one iteration of `for command in commands`.
SolveRotate1 ==
    /\ pc = "loop" /\ part = 1 /\ line < Len(commands_of(input))
    /\ LET text == commands_of(input)[line + 1]
       IN  /\ ~RotatePanics(text)
           /\ command' = text
           /\ LET b == solve_body1(dial, dial_zero_count, text)
              IN  dial' = b.dial /\ dial_zero_count' = b.dial_zero_count
    /\ line' = line + 1
    /\ UNCHANGED <<part, pc, output, NotDay1>>

\* Part 2: one iteration of `for command in commands`.
SolveRotate2 ==
    /\ pc = "loop" /\ part = 2 /\ line < Len(commands_of(input))
    /\ LET text == commands_of(input)[line + 1]
       IN  /\ ~RotatePanics(text)
           /\ command' = text
           /\ LET b == solve_body2(dial, dial_zero_count, text)
              IN  dial' = b.dial /\ dial_zero_count' = b.dial_zero_count
    /\ line' = line + 1
    /\ UNCHANGED <<part, pc, output, NotDay1>>

\* SolveAbort that passes over the piece rotate_dial panics on.
SolveAbortMutant ==
    /\ pc = "loop" /\ line < Len(commands_of(input))
    /\ RotatePanics(commands_of(input)[line + 1])
    /\ command' = commands_of(input)[line + 1]
    /\ line' = line + 1
    /\ UNCHANGED <<part, pc, output, dial, dial_zero_count, NotDay1>>

\* Either part: rotate_dial panics on the next piece, and solve with it.
SolveAbort ==
    /\ pc = "loop" /\ line < Len(commands_of(input))
    /\ RotatePanics(commands_of(input)[line + 1])
    /\ command' = commands_of(input)[line + 1]
    /\ line' = line + 1
    /\ pc' = "panicked"
    /\ UNCHANGED <<part, output, dial, dial_zero_count, NotDay1>>

\* Either part: the pieces are exhausted,
\* `return dial_zero_count.to_string()`.
SolveReturn ==
    /\ pc = "loop" /\ line = Len(commands_of(input))
    /\ output' = to_string(dial_zero_count)
    /\ pc' = "done"
    /\ UNCHANGED <<part, line, dial, dial_zero_count, command, NotDay1>>

NextDay1Solve == SolveRotate1 \/ SolveRotate2 \/ SolveAbort \/ SolveReturn

SpecDay1Solve == InitDay1Solve /\ [][NextDay1Solve]_vars

(***************************************************************************)
(* Day 1: claims                                                           *)
(***************************************************************************)
Magnitude(text) == ParseInt(Tail(text))

\* The position j unit steps after p in the direction of the command.
StepsFrom(p, text, j) ==
    IF text[1] = "R" THEN (p + j) % 100 ELSE (p - j) % 100

\* The unit steps of a command applied at p whose resulting position is 0.
StepsOnZero(p, text) ==
    { j \in 1..Magnitude(text) : StepsFrom(p, text, j) = 0 }

\* A step of solve that applies a command.
Applies == pc = "loop" /\ pc' = "loop" /\ line' = line + 1

\* C4: part 2 starts at 50 with a count of 0; every command applied at
\* position p adds the number of j in 1..n with (p + j) mod 100 = 0 (R) or
\* (p - j) mod 100 = 0 (L) and leaves the dial n steps further; the count
\* so accumulated is the number returned.
C4_UnitStepsOnZero ==
    /\ (part = 2 /\ line = 0) => (dial = 50 /\ dial_zero_count = 0)
    /\ [][(part = 2 /\ Applies)
            => /\ dial_zero_count'
                    = dial_zero_count + Cardinality(StepsOnZero(dial, command'))
               /\ dial' = StepsFrom(dial, command', Magnitude(command'))]_vars
    /\ [][(part = 2 /\ pc' = "done")
            => /\ IsNumber(output') /\ ParseInt(output') = dial_zero_count
               /\ dial_zero_count' = dial_zero_count]_vars

\* C4 witness: part 2 has returned after a command that started on 0, made
\* a full turn or more and ended on 0: its start is not counted, its end is.
C4_Witness ==
    /\ part = 2 /\ pc = "done" /\ line >= 2
    /\ dial = 0 /\ Magnitude(command) >= 100 /\ Magnitude(command) % 100 = 0
    /\ dial_zero_count >= 2

\* C5: part 1 starts at 50 with a count of 0; every command adds 1 exactly
\* when the position after the whole command is 0, whatever positions its
\* unit steps went through; the count so accumulated is the number returned.
C5_CommandsEndingOnZero ==
    /\ (part = 1 /\ line = 0) => (dial = 50 /\ dial_zero_count = 0)
    /\ [][(part = 1 /\ Applies)
            => LET after == StepsFrom(dial, command', Magnitude(command'))
               IN  /\ dial' = after
                   /\ dial_zero_count'
                        = dial_zero_count + (IF after = 0 THEN 1 ELSE 0)]_vars
    /\ [][(part = 1 /\ pc' = "done")
            => /\ IsNumber(output') /\ ParseInt(output') = dial_zero_count
               /\ dial_zero_count' = dial_zero_count]_vars

\* C5 witness: part 1 has returned 0 although its last command went through
\* position 0 (a full turn or more, ending elsewhere).
C5_Witness ==
    /\ part = 1 /\ pc = "done"
    /\ Magnitude(command) > 100 /\ dial # 0
    /\ output = <<"0">>

\* The unit steps a call of rotate_dial has made so far.
StepsDone == Magnitude(command) - rotation.count

\* C18: in a call of rotate_dial of either part from a position p of 0..99
\* with a magnitude n, the position is in 0..99 after every unit step, j
\* steps leave it on (p + j) mod 100 for R and (p - j) mod 100 for L, a step
\* up from 99 leads to 0 and a step down from 0 to 99, and the position
\* returned is the one n steps away.
C18_CircularDial ==
    /\ [](pc \in {"while", "returned"}
            => /\ rotation.updated \in 0..99
               /\ StepsDone \in 0..Magnitude(command)
               /\ rotation.updated
                    = StepsFrom(rotation.start_position, command, StepsDone)
               /\ pc = "returned" => StepsDone = Magnitude(command))
    /\ [][(pc = "while" /\ rotation'.count = rotation.count - 1)
            => /\ (rotation.right /\ rotation.updated = 99)
                    => rotation'.updated = 0
               /\ (~rotation.right /\ rotation.updated = 0)
                    => rotation'.updated = 99]_vars

\* C18 witness: rotate_dial has returned 99 for a turn of more than 100
\* steps to the left from position 0.
C18_Witness ==
    /\ pc = "returned" /\ ~rotation.right
    /\ rotation.start_position = 0 /\ Magnitude(command) > 100
    /\ rotation.updated = 99

\* C19: a call of part 2's rotate_dial with a magnitude of 100 * k, from any
\* position and in either direction, returns the position it started from
\* and k zero passes.
C19_FullLaps ==
    (part = 2 /\ pc = "returned" /\ Magnitude(command) % 100 = 0)
        => /\ rotation.updated = rotation.start_position
           /\ rotation.zero_passes = Magnitude(command) \div 100

\* C19 witness: part 2's rotate_dial has returned (50, 2) for two full turns
\* to the left from 50.
C19_Witness ==
    /\ part = 2 /\ pc = "returned" /\ ~rotation.right
    /\ rotation.start_position = 50 /\ Magnitude(command) = 200
    /\ rotation.updated = 50 /\ rotation.zero_passes = 2

\* A command of magnitude 0.
ZeroMagnitude(text) ==
    /\ Len(text) > 1 /\ text[1] \in {"R", "L"}
    /\ IsNumber(Tail(text)) /\ ParseInt(Tail(text)) = 0

\* The pieces of the input consumed so far are all commands of magnitude 0.
OnlyZeroMagnitudes ==
    \A i \in 1..line : ZeroMagnitude(commands_of(input)[i])

\* rotate_dial with a command of magnitude 0 returns the position it was
\* given, and 0 zero passes in part 2.
ZeroMagnitudeReturnsPosition ==
    \A p \in Positions : \A text \in { <<"R", "0">>, <<"L", "0">> } :
        /\ rotate_dial1(p, text) = p
        /\ rotate_dial2(p, text) = <<p, 0>>

\* C20: rotate_dial with a command of magnitude 0 returns the position it
\* was given (and 0 zero passes in part 2); while solve of either part has
\* consumed only commands of magnitude 0 its dial is at 50 and its count is
\* 0, and when it returns from such an input it returns "0".
C20_ZeroMagnitudes ==
    /\ ZeroMagnitudeReturnsPosition
    /\ (pc \in {"loop", "done"} /\ OnlyZeroMagnitudes)
         => /\ dial = 50 /\ dial_zero_count = 0
            /\ pc = "done" => output = <<"0">>

\* C20 witness: solve has returned "0" from an input of MaxLines1 commands
\* of magnitude 0, of both directions, with its dial at 50.
C20_Witness ==
    /\ pc = "done" /\ line = MaxLines1 /\ OnlyZeroMagnitudes
    /\ \E i \in 1..line : commands_of(input)[i][1] = "L"
    /\ \E i \in 1..line : commands_of(input)[i][1] = "R"
    /\ dial = 50 /\ output = <<"0">>

\* solve of part p after the first n pieces of its input: its dial and its
\* count.
RECURSIVE RunSolve(_, _, _)
RunSolve(p, pieces, n) ==
    IF n = 0 THEN [dial |-> DialStart, dial_zero_count |-> 0]
    ELSE LET before == RunSolve(p, pieces, n - 1)
         IN  IF p = 1
             THEN solve_body1(before.dial, before.dial_zero_count, pieces[n])
             ELSE solve_body2(before.dial, before.dial_zero_count, pieces[n])

\* C27: after every command of a command list the dial of part 1 and the
\* dial of part 2 are on the same position, and when every command so far
\* has a magnitude of 1 or more the count of part 2 is at least the count
\* of part 1.
C27_SameDial ==
    (pc \in {"loop", "done"})
        => LET pieces == commands_of(input)
               one    == RunSolve(1, pieces, line)
               two    == RunSolve(2, pieces, line)
           IN  /\ dial = (IF part = 1 THEN one.dial ELSE two.dial)
               /\ dial_zero_count
                    = (IF part = 1 THEN one.dial_zero_count
                       ELSE two.dial_zero_count)
               /\ one.dial = two.dial
               /\ (\A i \in 1..line : Magnitude(pieces[i]) >= 1)
                    => two.dial_zero_count >= one.dial_zero_count

\* C27 witness: part 2 has returned a count above the count 1 or more of
\* part 1 for MaxLines1 commands of magnitude 1 or more.
C27_Witness ==
    /\ part = 2 /\ pc = "done" /\ line = MaxLines1
    /\ \A i \in 1..line : Magnitude(commands_of(input)[i]) >= 1
    /\ RunSolve(1, commands_of(input), line).dial_zero_count >= 1
    /\ dial_zero_count > RunSolve(1, commands_of(input), line).dial_zero_count
    /\ dial = RunSolve(1, commands_of(input), line).dial

\* The number of newline characters of a text.
RECURSIVE Newlines(_)
Newlines(text) ==
    IF text = <<>> THEN 0
    ELSE (IF Head(text) = "\n" THEN 1 ELSE 0) + Newlines(Tail(text))

\* The pieces joined again with one newline between two of them.
RECURSIVE JoinLines(_)
JoinLines(pieces) ==
    IF Len(pieces) = 1 THEN pieces[1]
    ELSE pieces[1] \o <<"\n">> \o JoinLines(Tail(pieces))

\* One character followed by decimal digits.
CharacterAndNumber(text) == Len(text) >= 2 /\ IsNumber(Tail(text))

\* A direction letter followed by decimal digits.
DirectionAndMagnitude(text) ==
    CharacterAndNumber(text) /\ text[1] \in {"R", "L"}

MaxIdLen == 6
MaxDigit == 2
MaxRanges == 2
MaxSpan == 3

RECURSIVE TextsOfLen(_)
TextsOfLen(n) ==
    IF n = 0 THEN {<<>>}
    ELSE { Append(t, DigitChars[d + 1]) : t \in TextsOfLen(n - 1), d \in 0..MaxDigit }

IdTexts == UNION { TextsOfLen(n) : n \in 1..MaxIdLen }

\* Just below 11, 99, 111 and 1010.
RangeBases == {9, 98, 109, 1008}

RangeEnds == { b + a : b \in RangeBases, a \in 0..MaxSpan }

\* The text "start-end".
RangeText(start, end) == to_string(start) \o <<"-">> \o to_string(end)

Ranges2 ==
    { RangeText(b + a1, b + a2) : b \in RangeBases, a1 \in 0..MaxSpan, a2 \in 0..MaxSpan }

\* The slice id[from..to] (from inclusive, to exclusive, counted from 0).
Slice(text, from, to) == SubSeq(text, from + 1, to)

\* Part 1: is_invalid_id.
is_invalid_id1Mutant(text) ==
    Slice(text, 0, Len(text) \div 2) = Slice(text, (Len(text) + 1) \div 2, Len(text))

is_invalid_id1(text) ==
    Slice(text, 0, Len(text) \div 2) = Slice(text, Len(text) \div 2, Len(text))

\* Part 2: the inner loop of is_invalid_id, `for test_element in 1..elements`:
\* no element differs from the first.
elements_equal(text, elements) ==
    LET element_length == Len(text) \div elements
    IN  \A test_element \in 1..(elements - 1) :
            Slice(text, 0, element_length)
              = Slice(text, element_length * test_element,
                            (element_length * test_element) + element_length)

\* Part 2: the outer loop of is_invalid_id from `elements` on.
RECURSIVE elements_loopMutant(_, _)
elements_loopMutant(text, elements) ==
    IF elements > Len(text) THEN FALSE
    ELSE IF Len(text) % elements # 0 THEN elements_loopMutant(text, elements + 1)
    ELSE elements_equal(text, elements)

RECURSIVE elements_loop(_, _)
elements_loop(text, elements) ==
    IF elements > Len(text) THEN FALSE
    ELSE IF Len(text) % elements # 0 THEN elements_loop(text, elements + 1)
    ELSE IF elements_equal(text, elements) THEN TRUE
    ELSE elements_loop(text, elements + 1)

\* Part 2: is_invalid_id.
is_invalid_id2Mutant(text) == elements_loop(text, 3)

is_invalid_id2(text) == elements_loop(text, 2)

is_invalid_id(p, text) == IF p = 1 THEN is_invalid_id1(text) ELSE is_invalid_id2(text)

\* collect_invalid_ids_in_range: `for id in start..=end` from `n` on.
RECURSIVE collect_fromMutant(_, _, _, _)
collect_fromMutant(p, n, end, numbers) ==
    IF n >= end THEN numbers
    ELSE collect_fromMutant(p, n + 1, end,
             IF is_invalid_id(p, to_string(n)) THEN Append(numbers, n) ELSE numbers)

RECURSIVE collect_from(_, _, _, _)
collect_from(p, n, end, numbers) ==
    IF n > end THEN numbers
    ELSE collect_from(p, n + 1, end,
             IF is_invalid_id(p, to_string(n)) THEN Append(numbers, n) ELSE numbers)

collect_invalid_ids_in_range(p, start, end) == collect_from(p, start, end, <<>>)

\* `for id in .. { result += id; }`.
RECURSIVE add_all(_, _)
add_all(res, numbers) ==
    IF numbers = <<>> THEN res ELSE add_all(res + Head(numbers), Tail(numbers))

\* The body of solve's loop on `result`.
solve_body_day2(p, res, text) ==
    LET ids == split(text, "-")
    IN  add_all(res, collect_invalid_ids_in_range(p, ParseInt(ids[1]), ParseInt(ids[2])))

InitDay2 ==
    /\ part \in Parts
    /\ pc = "loop"
    /\ result = 0
    /\ line = 0
    /\ output = <<>>
    /\ input = <<>>
    /\ Idle2 /\ Idle1 /\ Idle4 /\ Idle3 /\ Idle5 /\ Idle6 /\ IdleU /\ IdleP /\ IdleR

\* One iteration of `for range in ranges`.
ScanRange ==
    /\ pc = "loop" /\ line < MaxRanges
    /\ \E text \in Ranges2 :
         /\ range' = text
         /\ result' = solve_body_day2(part, result, text)
    /\ line' = line + 1
    /\ UNCHANGED <<part, pc, output, id, is_invalid, NotDay2>>

\* The ranges are exhausted (split yields at least one): `result.to_string()`.
Return2 ==
    /\ pc = "loop" /\ line >= 1
    /\ output' = to_string(result)
    /\ pc' = "done"
    /\ UNCHANGED <<part, result, line, vars2, NotDay2>>

NextDay2 == ScanRange \/ Return2

SpecDay2 == InitDay2 /\ [][NextDay2]_vars

\* is_invalid_id on its own: a call with any text of digits.
InitDay2Id ==
    /\ part \in Parts
    /\ pc = "call"
    /\ id \in IdTexts
    /\ is_invalid = FALSE
    /\ range = <<>>
    /\ result = 0 /\ line = 0 /\ output = <<>> /\ input = <<>>
    /\ Idle1 /\ Idle4 /\ Idle3 /\ Idle5 /\ Idle6 /\ IdleU /\ IdleP /\ IdleR

CheckId ==
    /\ pc = "call"
    /\ is_invalid' = is_invalid_id(part, id)
    /\ pc' = "returned"
    /\ UNCHANGED <<part, result, line, output, range, id, NotDay2>>

NextDay2Id == CheckId

SpecDay2Id == InitDay2Id /\ [][NextDay2Id]_vars

\* solve on a whole input: at most MaxLists2 ranges of SolveRanges2, joined
\* by ",". The ranges are those of the repository's tests and 1-9.
MaxLists2 == 3

SolveRanges2 ==
    { RangeText(11, 22), RangeText(95, 115), RangeText(998, 1012), RangeText(1, 9) }

RECURSIVE InputsOfRanges(_)
InputsOfRanges(n) ==
    IF n = 1 THEN SolveRanges2
    ELSE { t \o <<",">> \o r : t \in InputsOfRanges(n - 1), r \in SolveRanges2 }

Inputs2 == UNION { InputsOfRanges(n) : n \in 1..MaxLists2 }

\* `let ranges = input.split(",")`.
ranges_of(text) == split(text, ",")

InitDay2Solve ==
    /\ part \in Parts
    /\ input \in Inputs2
    /\ pc = "loop"
    /\ result = 0
    /\ line = 0
    /\ output = <<>>
    /\ Idle2 /\ Idle1 /\ Idle4 /\ Idle3 /\ Idle5 /\ Idle6 /\ IdleU /\ IdleP /\ IdleR

\* One iteration of `for range in ranges`.
ScanInputRange ==
    /\ pc = "loop" /\ line < Len(ranges_of(input))
    /\ range' = ranges_of(input)[line + 1]
    /\ result' = solve_body_day2(part, result, range')
    /\ line' = line + 1
    /\ UNCHANGED <<part, pc, output, id, is_invalid, NotDay2>>

\* The ranges are exhausted: `result.to_string()`.
ReturnInput ==
    /\ pc = "loop" /\ line = Len(ranges_of(input))
    /\ output' = to_string(result)
    /\ pc' = "done"
    /\ UNCHANGED <<part, result, line, vars2, NotDay2>>

\* Both parts side by side: a call of is_invalid_id on any text of digits,
\* or a run of solve on a whole input.
InitDay2Parts == InitDay2Id \/ InitDay2Solve

NextDay2Parts == CheckId \/ ScanInputRange \/ ReturnInput

SpecDay2Parts == InitDay2Parts /\ [][NextDay2Parts]_vars

(***************************************************************************)
(* Day 2: claims                                                           *)
(***************************************************************************)

\* C6: part 1's predicate is true exactly of the texts of even length 2n
\* whose k-th and (n + k)-th characters agree for every k in 1..n; every
\* text of odd length is reported not invalid.
C6_HalvesEqual ==
    (part = 1 /\ pc = "returned")
        => /\ is_invalid <=> \E n \in 1..Len(id) :
                                /\ Len(id) = 2 * n
                                /\ \A k \in 1..n : id[k] = id[n + k]
           /\ (Len(id) % 2 = 1) => ~is_invalid

\* C6 witness: part 1 has reported not invalid a text of odd length, three
\* or more, made of one repeated digit.
C6_Witness ==
    /\ part = 1 /\ pc = "returned" /\ ~is_invalid
    /\ Len(id) % 2 = 1 /\ Len(id) >= 3
    /\ \A k \in 1..Len(id) : id[k] = id[1]

\* m copies of a text, one after the other.
RECURSIVE Copies(_, _)
Copies(text, m) == IF m = 0 THEN <<>> ELSE text \o Copies(text, m - 1)

\* C7: part 2's predicate is true exactly of the texts of length L that are
\* m copies of their prefix of length L / m for some m in 2..L dividing L; a
\* text of one digit is never invalid.
C7_RepeatedBlock ==
    (part = 2 /\ pc = "returned")
        => /\ is_invalid <=> \E m \in 2..Len(id) :
                                /\ Len(id) % m = 0
                                /\ id = Copies(SubSeq(id, 1, Len(id) \div m), m)
           /\ (Len(id) = 1) => ~is_invalid

\* C7 witness: part 2 has reported invalid a text of six digits that is
\* three copies of a block and not two.
C7_Witness ==
    /\ part = 2 /\ pc = "returned" /\ is_invalid
    /\ Len(id) = 6
    /\ SubSeq(id, 1, 3) # SubSeq(id, 4, 6)

RECURSIVE SetSum(_)
SetSum(S) == IF S = {} THEN 0 ELSE LET x == CHOOSE x \in S : TRUE IN x + SetSum(S \ {x})

\* The integers of start..end the part's predicate holds of.
InvalidIn(p, start, end) == { i \in start..end : is_invalid_id(p, to_string(i)) }

\* The text "start-end" of every pair of ends.
RangeTexts == [start \in RangeEnds, end \in RangeEnds |-> RangeText(start, end)]

\* The ends <<start, end>> a text "start-end" is written from.
EndsOf ==
    [text \in { RangeTexts[ends] : ends \in RangeEnds \X RangeEnds } |->
        CHOOSE ends \in RangeEnds \X RangeEnds : RangeTexts[ends] = text]

\* C8: solve starts from 0; every range start-end adds the sum of the
\* integers i with start <= i <= end that the part's predicate holds of,
\* whatever ranges came before it (an integer of several ranges is added
\* once per range) and nothing when start > end; the sum so accumulated is
\* the number returned.
C8_RangesSummedIndependently ==
    /\ (line = 0) => (result = 0)
    /\ [][(pc = "loop" /\ line' = line + 1)
            => /\ range' \in DOMAIN EndsOf
               /\ LET start == EndsOf[range'][1]
                      end   == EndsOf[range'][2]
                  IN  /\ result' = result + SetSum(InvalidIn(part, start, end))
                      /\ (start > end) => (result' = result)]_vars
    /\ [][(pc' = "done")
            => IsNumber(output') /\ ParseInt(output') = result /\ result' = result]_vars

\* C8 witness: solve has returned 22 after two ranges although the only
\* invalid integer of the last one is 11: 11 was added once per range.
C8_Witness ==
    /\ pc = "done" /\ line = 2
    /\ output = <<"2", "2">>
    /\ range = RangeText(9, 12)

\* solve of part p after the first n ranges of its input: its result.
RECURSIVE RunDay2(_, _, _)
RunDay2(p, ranges, n) ==
    IF n = 0 THEN 0
    ELSE solve_body_day2(p, RunDay2(p, ranges, n - 1), ranges[n])

\* C28: a text of digits part 1's predicate reports invalid is reported
\* invalid by part 2's (and one part 2's reports not invalid is reported not
\* invalid by part 1's); after every range of a list of ranges the sum of
\* part 2 is at least the sum of part 1, and so are the sums returned.
C28_Part1WithinPart2 ==
    /\ (pc = "returned" /\ part = 1 /\ is_invalid) => is_invalid_id(2, id)
    /\ (pc = "returned" /\ part = 2 /\ ~is_invalid) => ~is_invalid_id(1, id)
    /\ (pc \in {"loop", "done"})
         => LET one == RunDay2(1, ranges_of(input), line)
                two == RunDay2(2, ranges_of(input), line)
            IN  /\ result = (IF part = 1 THEN one ELSE two)
                /\ two >= one
                /\ pc = "done" => (IsNumber(output) /\ ParseInt(output) = result)

\* C28 witness: part 2 has returned more than the sum above 0 of part 1 for
\* MaxLists2 ranges, the last of them 95-115 where 99 is invalid for both
\* parts and 111 for part 2 alone.
C28_Witness ==
    /\ part = 2 /\ pc = "done" /\ line = MaxLists2
    /\ range = RangeText(95, 115)
    /\ RunDay2(1, ranges_of(input), line) > 0
    /\ result > RunDay2(1, ranges_of(input), line)
    /\ is_invalid_id(1, to_string(99)) /\ is_invalid_id(2, to_string(99))
    /\ ~is_invalid_id(1, to_string(111)) /\ is_invalid_id(2, to_string(111))

(***************************************************************************)
(* Day 3: joltage                                                          *)
(***************************************************************************)

\* Bounds of the day 3 inputs: at most MaxBanks banks, each of the number
\* of digits its part selects and at most MaxExtra more.
MaxBanks == 2
MaxExtra == 1

\* The digits find_best_joltage selects: two in part 1, `for i in 1..=12`
\* in part 2.
JoltageDigits1 == 2
JoltageDigits2 == 12

JoltageDigits(p) == IF p = 1 THEN JoltageDigits1 ELSE JoltageDigits2

\* A joltage of twelve digits is beyond the integers of the model checker:
\* the i32/i64 values of day 3 are the sequences of their decimal digits,
\* the most significant first, with no leading 0 (zero is <<0>>).
RECURSIVE Normalized(_)
Normalized(digits) ==
    IF Len(digits) > 1 /\ digits[1] = 0 THEN Normalized(Tail(digits)) ELSE digits

BigZero == <<0>>

\* str::parse::<i64>().unwrap() of a run of decimal digits.
BigParse(text) == Normalized([k \in 1..Len(text) |-> DigitValue(text[k])])

\* i64::to_string.
BigToString(digits) == [k \in 1..Len(digits) |-> DigitChars[digits[k] + 1]]

PadTo(digits, n) ==
    [k \in 1..n |-> IF k <= n - Len(digits) THEN 0 ELSE digits[k - (n - Len(digits))]]

RECURSIVE AddDigits(_, _, _, _, _)
AddDigits(x, y, k, carry, acc) ==
    IF k = 0 THEN (IF carry = 0 THEN acc ELSE <<carry>> \o acc)
    ELSE LET t == x[k] + y[k] + carry
         IN  AddDigits(x, y, k - 1, t \div 10, <<t % 10>> \o acc)

\* `result += joltage`.
BigAdd(a, b) ==
    LET n == IF Len(a) > Len(b) THEN Len(a) ELSE Len(b)
    IN  Normalized(AddDigits(PadTo(a, n), PadTo(b, n), n, 0, <<>>))

\* a <= b on such values.
RECURSIVE DigitsLeq(_, _)
DigitsLeq(a, b) ==
    IF a = <<>> THEN TRUE
    ELSE IF Head(a) # Head(b) THEN Head(a) < Head(b)
    ELSE DigitsLeq(Tail(a), Tail(b))

BigLeq(a, b) ==
    IF Len(a) # Len(b) THEN Len(a) < Len(b) ELSE DigitsLeq(a, b)

RECURSIVE BanksOfLen(_, _)
BanksOfLen(n, digits) ==
    IF n = 0 THEN {<<>>}
    ELSE { Append(t, d) : t \in BanksOfLen(n - 1, digits), d \in digits }

\* Part 1 banks of the digits 0, 1, 2; part 2 banks of the digits 0, 1.
Banks1 ==
    UNION { BanksOfLen(n, {"0", "1", "2"}) :
              n \in JoltageDigits1..(JoltageDigits1 + MaxExtra) }
Banks2 ==
    UNION { BanksOfLen(n, {"0", "1"}) :
              n \in JoltageDigits2..(JoltageDigits2 + MaxExtra) }

\* The banks with at most one digit other than 0.
Sparse(banks) ==
    { b \in banks : Cardinality({ k \in 1..Len(b) : b[k] # "0" }) <= 1 }
SparseBanks1 == Sparse(Banks1)
SparseBanks2 == Sparse(Banks2)

\* The inputs of solve: one bank of any digits, or several sparse banks.
\* The banks that can follow `last` on line n (counted from 0).
BanksAt(p, n, last) ==
    IF n = 0 THEN (IF p = 1 THEN Banks1 ELSE Banks2)
    ELSE IF last \in SparseBanks2 \cup SparseBanks1
         THEN (IF p = 1 THEN SparseBanks1 ELSE SparseBanks2)
         ELSE {}

\* find_highest_number: the loop `for i in 0..range.len()` from i on.
RECURSIVE highest_fromMutant(_, _, _, _)
highest_fromMutant(text, i, index, highest) ==
    IF i >= Len(text) THEN index
    ELSE LET digit_value == DigitValue(text[i + 1])
         IN  IF highest <= digit_value
             THEN highest_fromMutant(text, i + 1, i, digit_value)
             ELSE highest_fromMutant(text, i + 1, index, highest)

RECURSIVE highest_from(_, _, _, _)
highest_from(text, i, index, highest) ==
    IF i >= Len(text) THEN index
    ELSE LET digit_value == DigitValue(text[i + 1])
         IN  IF highest < digit_value
             THEN highest_from(text, i + 1, i, digit_value)
             ELSE highest_from(text, i + 1, index, highest)

find_highest_numberMutant(text) == highest_from(text, 0, 0, 1)

find_highest_number(text) == highest_from(text, 0, 0, 0)

\* Part 2: one iteration of `for i in 1..=12` on (start_index, result).
pick_stepMutant(text, st, i) ==
    LET end_index == Len(text) - JoltageDigits2 + i
        slice     == Slice(text, st.start_index, end_index)
        found     == find_highest_number(slice)
    IN  [start_index |-> st.start_index + found,
         result      |-> st.result \o Slice(slice, found, found + 1),
         found_index |-> found]

pick_step(text, st, i) ==
    LET end_index == Len(text) - JoltageDigits2 + i
        slice     == Slice(text, st.start_index, end_index)
        found     == find_highest_number(slice)
    IN  [start_index |-> st.start_index + found + 1,
         result      |-> st.result \o Slice(slice, found, found + 1),
         found_index |-> found]

\* An iteration panics: `bank.len() - 12 + i` below 0, a slice that starts
\* after its end or ends after the bank's, or `slice[0..=0]` of an empty slice.
pick_panics(text, start, i) ==
    LET end_index == Len(text) - JoltageDigits2 + i
    IN  end_index < 0 \/ start > end_index \/ end_index > Len(text)
            \/ start = end_index

RECURSIVE pick_loop(_, _, _)
pick_loop(text, st, i) ==
    IF i > JoltageDigits2 THEN st ELSE pick_loop(text, pick_step(text, st, i), i + 1)

\* Part 2: find_best_joltage.
find_best_joltage2(text) ==
    BigParse(pick_loop(text, [start_index |-> 0, result |-> <<>>], 1).result)

\* Part 1: find_best_joltage.
find_best_joltage1Mutant(text) ==
    LET first_slice  == Slice(text, 0, Len(text) - 1)
        first_index  == find_highest_number(first_slice)
        second_slice == Slice(text, first_index, Len(text))
        second_index == find_highest_number(second_slice)
    IN  BigParse(Slice(first_slice, first_index, first_index + 1)
                   \o Slice(second_slice, second_index, second_index + 1))

find_best_joltage1(text) ==
    LET first_slice  == Slice(text, 0, Len(text) - 1)
        first_index  == find_highest_number(first_slice)
        second_slice == Slice(text, first_index + 1, Len(text))
        second_index == find_highest_number(second_slice)
    IN  BigParse(Slice(first_slice, first_index, first_index + 1)
                   \o Slice(second_slice, second_index, second_index + 1))

find_best_joltage(p, text) ==
    IF p = 1 THEN find_best_joltage1(text) ELSE find_best_joltage2(text)

InitDay3 ==
    /\ part \in Parts
    /\ pc = "loop"
    /\ result = BigZero
    /\ line = 0
    /\ output = <<>>
    /\ input = <<>>
    /\ Idle3 /\ Idle2 /\ Idle1 /\ Idle4 /\ Idle5 /\ Idle6 /\ IdleU /\ IdleP /\ IdleR

\* One iteration of `for bank in banks`.
AddJoltage ==
    /\ pc = "loop" /\ line < MaxBanks
    /\ \E text \in BanksAt(part, line, bank) :
         /\ bank' = text
         /\ joltage' = find_best_joltage(part, text)
         /\ result' = BigAdd(result, joltage')
    /\ line' = line + 1
    /\ UNCHANGED <<part, pc, output, varsP, NotDay3>>

\* The banks are exhausted (split yields at least one): `result.to_string()`.
Return3 ==
    /\ pc = "loop" /\ line >= 1
    /\ output' = BigToString(result)
    /\ pc' = "done"
    /\ UNCHANGED <<part, result, line, vars3, varsP, NotDay3>>

NextDay3 == AddJoltage \/ Return3

SpecDay3 == InitDay3 /\ [][NextDay3]_vars

\* Part 1 find_best_joltage panics: `bank.len() - 1` below 0, a slice that
\* ends after its text, or `[index..=index]` beyond the end of a slice.
find_best_joltage1_panics(text) ==
    IF Len(text) - 1 < 0 THEN TRUE
    ELSE LET first_slice == Slice(text, 0, Len(text) - 1)
             first_index == find_highest_number(first_slice)
         IN  IF first_index + 1 > Len(text) THEN TRUE
             ELSE LET second_slice == Slice(text, first_index + 1, Len(text))
                      second_index == find_highest_number(second_slice)
                  IN  IF first_index + 1 > Len(first_slice) THEN TRUE
                      ELSE second_index + 1 > Len(second_slice)

\* Part 2 find_best_joltage panics: an iteration of `for i in 1..=12` from
\* the i-th on does.
RECURSIVE pick_panics_from(_, _, _)
pick_panics_from(text, st, i) ==
    IF i > JoltageDigits2 THEN FALSE
    ELSE IF pick_panics(text, st.start_index, i) THEN TRUE
    ELSE pick_panics_from(text, pick_step(text, st, i), i + 1)

find_best_joltage2_panics(text) ==
    pick_panics_from(text, [start_index |-> 0, result |-> <<>>], 1)

find_best_joltage_panics(p, text) ==
    IF p = 1 THEN find_best_joltage1_panics(text) ELSE find_best_joltage2_panics(text)

\* solve on lines of any length: the banks of one repeated digit, of no
\* digit at all up to MaxExtra digits more than the part selects.
LineBanks(p) ==
    { [k \in 1..n |-> d] :
        n \in 0..(JoltageDigits(p) + MaxExtra), d \in {"0", "1", "2"} }

\* One iteration of `for bank in banks` that completes.
AddLineJoltage ==
    /\ pc = "loop" /\ line < MaxBanks
    /\ \E text \in LineBanks(part) :
         /\ ~find_best_joltage_panics(part, text)
         /\ bank' = text
         /\ joltage' = find_best_joltage(part, text)
         /\ result' = BigAdd(result, joltage')
    /\ line' = line + 1
    /\ UNCHANGED <<part, pc, output, varsP, NotDay3>>

\* An iteration in which find_best_joltage panics, and solve with it.
AbortJoltageMutant ==
    /\ pc = "loop" /\ line < MaxBanks
    /\ \E text \in LineBanks(part) :
         /\ find_best_joltage_panics(part, text)
         /\ bank' = text
    /\ line' = line + 1
    /\ joltage' = BigZero
    /\ UNCHANGED <<part, pc, result, output, varsP, NotDay3>>

AbortJoltage ==
    /\ pc = "loop" /\ line < MaxBanks
    /\ \E text \in LineBanks(part) :
         /\ find_best_joltage_panics(part, text)
         /\ bank' = text
    /\ line' = line + 1
    /\ pc' = "panicked"
    /\ UNCHANGED <<part, result, output, joltage, varsP, NotDay3>>

NextDay3Lines == AddLineJoltage \/ AbortJoltage \/ Return3

SpecDay3Lines == InitDay3 /\ [][NextDay3Lines]_vars

\* The banks of find_best_joltage on its own: banks of the digits 0, 1 with
\* at most MaxOnes digits 1, of 12 digits, up to MaxExtra more, or one less.
MaxOnes == 2

PickBanks ==
    UNION { { [k \in 1..n |-> IF k \in ones THEN "1" ELSE "0"] :
                ones \in SubsetsUpTo(1..n, MaxOnes) } :
            n \in (JoltageDigits2 - 1)..(JoltageDigits2 + MaxExtra) }

\* Part 2 find_best_joltage on its own, an iteration of its loop at a time.
InitDay3Pick ==
    /\ part = 2
    /\ pc = "pick"
    /\ bank \in PickBanks
    /\ pick_i = 1 /\ start_index = 0 /\ found_index = 0 /\ picks = <<>>
    /\ result = <<>>
    /\ joltage = <<>>
    /\ line = 0 /\ output = <<>> /\ input = <<>>
    /\ Idle2 /\ Idle1 /\ Idle4 /\ Idle5 /\ Idle6 /\ IdleU /\ IdleR

\* One iteration of `for i in 1..=12` that completes.
PickDigit ==
    /\ pc = "pick" /\ pick_i <= JoltageDigits2
    /\ ~pick_panics(bank, start_index, pick_i)
    /\ LET st == pick_step(bank, [start_index |-> start_index, result |-> result], pick_i)
       IN  /\ start_index' = st.start_index
           /\ result' = st.result
           /\ found_index' = st.found_index
           /\ picks' = Append(picks, start_index + st.found_index)
    /\ pick_i' = pick_i + 1
    /\ UNCHANGED <<part, pc, line, output, vars3, NotDay3>>

\* An iteration that panics.
AbortPick ==
    /\ pc = "pick" /\ pick_i <= JoltageDigits2
    /\ pick_panics(bank, start_index, pick_i)
    /\ pc' = "panicked"
    /\ UNCHANGED <<part, result, line, output, vars3, varsP, NotDay3>>

\* `result.parse().unwrap()`.
ReturnPick ==
    /\ pc = "pick" /\ pick_i > JoltageDigits2
    /\ joltage' = BigParse(result)
    /\ pc' = "picked"
    /\ UNCHANGED <<part, result, line, output, bank, varsP, NotDay3>>

NextDay3Pick == PickDigit \/ AbortPick \/ ReturnPick

SpecDay3Pick == InitDay3Pick /\ [][NextDay3Pick]_vars

\* find_highest_number on its own: the digit strings of at most
\* MaxRangeLen digits, the empty one included.
MaxRangeLen == 4

DigitRanges == UNION { TextsOfLen(n) : n \in 0..MaxRangeLen }

InitDay3Highest ==
    /\ part \in Parts
    /\ pc = "call"
    /\ range \in DigitRanges
    /\ id = <<>> /\ is_invalid = FALSE
    /\ result = 0 /\ line = 0 /\ output = <<>> /\ input = <<>>
    /\ Idle3 /\ IdleP /\ Idle1 /\ Idle4 /\ Idle5 /\ Idle6 /\ IdleU /\ IdleR

\* A call of find_highest_number.
FindHighest ==
    /\ pc = "call"
    /\ found_index' = find_highest_number(range)
    /\ pc' = "returned"
    /\ UNCHANGED <<part, result, line, output, pick_i, start_index, picks,
                   vars3, NotDay3>>

NextDay3Highest == FindHighest

SpecDay3Highest == InitDay3Highest /\ [][NextDay3Highest]_vars

(***************************************************************************)
(* Day 3: claims                                                           *)
(***************************************************************************)

\* The ways of choosing k positions of from..n in increasing order.
RECURSIVE IncreasingPositions(_, _, _)
IncreasingPositions(from, n, k) ==
    IF k = 0 THEN {<<>>}
    ELSE UNION { { <<q>> \o rest : rest \in IncreasingPositions(q + 1, n, k - 1) } :
                 q \in from..(n - k + 1) }

\* The number the digits at the chosen positions form, the first the most
\* significant.
NumberAt(text, positions) ==
    Normalized([k \in 1..Len(positions) |-> DigitValue(text[positions[k]])])

\* The choices of k positions among n, for the lengths and the k of the banks.
Choices ==
    [n \in 1..(JoltageDigits2 + MaxExtra), k \in {JoltageDigits1, JoltageDigits2} |->
        IncreasingPositions(1, n, k)]

SubsequenceNumbers(text, k) ==
    { NumberAt(text, positions) : positions \in Choices[Len(text), k] }

RECURSIVE Maximum(_)
Maximum(S) ==
    LET x    == CHOOSE x \in S : TRUE
        rest == S \ {x}
    IN  IF rest = {} THEN x
        ELSE LET m == Maximum(rest) IN IF BigLeq(m, x) THEN x ELSE m

\* C3: solve starts from 0; every bank of n >= k digits adds the maximum,
\* over the ways of choosing k positions in increasing order, of the number
\* the digits at those positions form (k = 2 in part 1, 12 in part 2); the
\* sum so accumulated is the number returned.
C3_MaximalSubsequence ==
    /\ (line = 0) => (result = BigZero)
    /\ [](line >= 1
            => joltage = Maximum(SubsequenceNumbers(bank, JoltageDigits(part))))
    /\ [][(pc = "loop" /\ line' = line + 1) => result' = BigAdd(result, joltage')]_vars
    /\ [][(pc' = "done")
            => /\ IsNumber(output') /\ BigParse(output') = result
               /\ result' = result]_vars

\* C3 witness: part 2 has returned the sum of two banks, the last of them
\* longer than 12 digits with its only non-zero digit in last place, and
\* the sum has twelve digits.
C3_Witness ==
    /\ part = 2 /\ pc = "done" /\ line = 2
    /\ Len(bank) > JoltageDigits2
    /\ bank[Len(bank)] = "1"
    /\ Len(output) = JoltageDigits2

\* C16: on a bank of n >= 12 digits find_best_joltage does not panic; at
\* every step i the window [start_index, n - 12 + i) is not empty and ends
\* within the bank; the offset taken at step i lies in the window of step i,
\* is greater than the one taken at step i - 1 and has at least 12 - i
\* digits after it; the digits taken are, in order, the digits of the bank
\* at these offsets, and the function returns when 12 have been taken.
C16_GreedySelection ==
    (Len(bank) >= JoltageDigits2 /\ pc \in { "pick", "picked", "panicked" })
        => /\ pc # "panicked"
           /\ Len(picks) = pick_i - 1
           /\ (pc = "pick" /\ pick_i <= JoltageDigits2)
                => /\ start_index < Len(bank) - JoltageDigits2 + pick_i
                   /\ Len(bank) - JoltageDigits2 + pick_i <= Len(bank)
           /\ start_index = (IF picks = <<>> THEN 0 ELSE picks[Len(picks)] + 1)
           /\ \A j \in 1..Len(picks) :
                /\ picks[j] >= (IF j = 1 THEN 0 ELSE picks[j - 1] + 1)
                /\ picks[j] < Len(bank) - JoltageDigits2 + j
                /\ (Len(bank) - 1) - picks[j] >= JoltageDigits2 - j
           /\ result = [j \in 1..Len(picks) |-> bank[picks[j] + 1]]
           /\ pc = "picked"
                => Len(picks) = JoltageDigits2 /\ joltage = BigParse(result)

\* C16 witness: find_best_joltage has returned for a bank of more than 12
\* digits after passing over its first digit, a 0, for the 1 behind it; the
\* last digit taken is a 1 that has a 1 before it in the bank.
C16_Witness ==
    /\ pc = "picked"
    /\ Len(bank) > JoltageDigits2
    /\ bank[1] = "0" /\ bank[2] = "1"
    /\ picks[1] = 1
    /\ picks[JoltageDigits2] = Len(bank) - 1
    /\ bank[Len(bank)] = "1"
    /\ Len(joltage) = JoltageDigits2

\* C17: for a digit string that is not empty, find_highest_number returns
\* an index of the string whose digit no digit of the string exceeds and
\* which every digit before it is below: the leftmost index of the maximum,
\* index 0 when every digit is 0.
C17_LeftmostMaximum ==
    (pc = "returned" /\ Len(range) > 0)
        => /\ found_index \in 0..(Len(range) - 1)
           /\ \A j \in 1..Len(range) :
                DigitValue(range[j]) <= DigitValue(range[found_index + 1])
           /\ \A j \in 1..found_index :
                DigitValue(range[j]) < DigitValue(range[found_index + 1])
           /\ (\A j \in 1..Len(range) : range[j] = "0") => found_index = 0

\* C17 witness: find_highest_number has returned index 1 for a string that
\* starts with 0 and has its maximum, 2, at index 1 and again behind it.
C17_Witness ==
    /\ pc = "returned" /\ Len(range) > 2
    /\ range[1] = "0" /\ range[2] = "2"
    /\ \E j \in 3..Len(range) : range[j] = "2"
    /\ found_index = 1

\* C23: an iteration of solve on a bank of fewer digits than its part
\* selects (the empty line included) aborts: no joltage is returned for the
\* bank, nothing is added to the sum, and solve takes no further step and
\* returns nothing; banks of at least that many digits do not abort.
C23_ShortBankAborts ==
    /\ [](line >= 1
            => (pc = "panicked" <=> Len(bank) < JoltageDigits(part)))
    /\ [](pc = "panicked" => output = <<>>)
    /\ [][(pc = "loop" /\ line' = line + 1 /\ Len(bank') < JoltageDigits(part))
            => /\ pc' = "panicked"
               /\ joltage' = joltage /\ result' = result /\ output' = <<>>]_vars
    /\ [][pc # "panicked"]_vars

\* C23 witness: part 2 has aborted on a second bank of eleven digits, the
\* joltage and the sum being those of the first bank.
C23_Witness ==
    /\ part = 2 /\ pc = "panicked" /\ line = 2
    /\ Len(bank) = JoltageDigits2 - 1
    /\ Len(joltage) = JoltageDigits2 /\ result = joltage
    /\ output = <<>>

\* The loop of part 2's find_best_joltage with k in the place of 12: the
\* iterations from the i-th on, on (start_index, result).
RECURSIVE greedy_from(_, _, _, _, _)
greedy_from(text, k, start, res, i) ==
    IF i > k THEN res
    ELSE LET end_index == Len(text) - k + i
             slice     == Slice(text, start, end_index)
             found     == find_highest_number(slice)
         IN  greedy_from(text, k, start + found + 1,
                         res \o Slice(slice, found, found + 1), i + 1)

GreedyJoltage(text, k) == BigParse(greedy_from(text, k, 0, <<>>, 1))

\* C26: for a bank of 2 digits or more, part 1's find_best_joltage returns
\* what the loop of part 2's find_best_joltage returns with 2 in the place
\* of 12 (as part 2's does with 12 itself).
C26_TwoDigitGreedy ==
    /\ (part = 1 /\ line >= 1 /\ Len(bank) >= 2)
         => joltage = GreedyJoltage(bank, JoltageDigits1)
    /\ (part = 2 /\ line >= 1 /\ Len(bank) >= JoltageDigits2)
         => joltage = GreedyJoltage(bank, JoltageDigits2)

\* C26 witness: part 1 has returned 12 for the bank 102: its first digit is
\* the highest of all but the last, its second the highest to the right.
C26_Witness ==
    /\ part = 1 /\ line >= 1
    /\ bank = <<"1", "0", "2">>
    /\ joltage = GreedyJoltage(bank, JoltageDigits1)
    /\ joltage = BigParse(<<"1", "2">>)

(***************************************************************************)
(* Day 5: range membership                                                 *)
(***************************************************************************)

\* Bounds of the day 5 inputs: at most MaxRanges5 range lines whose ends are
\* among the MaxVal5 + 1 values from 9 up, and at most MaxIds5 id lines.
MaxRanges5 == 2
MaxIds5 == 2
MaxVal5 == 1

Values5 == 9..(9 + MaxVal5)

\* The range lines: "start-end" for any two of the values (start > end
\* too), and a line without a '-'.
RangeTexts5 ==
    { to_string(a) \o <<"-">> \o to_string(b) : a \in Values5, b \in Values5 }
        \cup { <<"9">> }

RECURSIVE RangeLists5(_)
RangeLists5(n) ==
    IF n = 0 THEN { <<>> }
    ELSE RangeLists5(n - 1)
           \cup { Append(l, r) : l \in { x \in RangeLists5(n - 1) : Len(x) = n - 1 },
                                 r \in RangeTexts5 }

\* `input.lines()` up to the id lines: the range lines, followed by the
\* empty line or (a malformed input) by nothing.
Inputs5 ==
    { l \o d : l \in RangeLists5(MaxRanges5), d \in { <<>>, << <<>> >> } }

\* The id lines: the values, one below and one above them, and an empty line.
IdTexts5 == { to_string(v) : v \in 8..(10 + MaxVal5) } \cup { <<>> }

\* `lines.iter().position(|&x| x == "")`, -1 for None.
position_divider(lines) ==
    IF \A k \in 1..Len(lines) : lines[k] # <<>>
    THEN -1
    ELSE (CHOOSE k \in 1..Len(lines) :
              lines[k] = <<>> /\ \A j \in 1..(k - 1) : lines[j] # <<>>) - 1

\* is_id_in_range panics: values[1] out of bounds, or an unwrap of a failed parse.
RangePanics(text) ==
    LET values == split(text, "-")
    IN  IF Len(values) < 2 THEN TRUE
        ELSE IF ~IsNumber(values[1]) THEN TRUE
        ELSE ~IsNumber(values[2])

is_id_in_range(v, text) ==
    LET values == split(text, "-")
        start  == ParseInt(values[1])
        end    == ParseInt(values[2])
    IN  v >= start /\ v <= end

\* The inner loop `for range in lines[..divider_index]` from the k-th range
\* line on (counted from 0): what it adds to result, and whether it panics.
RECURSIVE scan_rangesMutant(_, _, _, _)
scan_rangesMutant(v, lines, k, divider) ==
    IF k >= divider THEN [panicked |-> FALSE, added |-> 0]
    ELSE IF RangePanics(lines[k + 1]) THEN [panicked |-> TRUE, added |-> 0]
    ELSE LET rest == scan_rangesMutant(v, lines, k + 1, divider)
         IN  IF is_id_in_range(v, lines[k + 1])
             THEN [panicked |-> rest.panicked, added |-> 1 + rest.added]
             ELSE rest

RECURSIVE scan_ranges(_, _, _, _)
scan_ranges(v, lines, k, divider) ==
    IF k >= divider THEN [panicked |-> FALSE, added |-> 0]
    ELSE IF RangePanics(lines[k + 1]) THEN [panicked |-> TRUE, added |-> 0]
    ELSE IF is_id_in_range(v, lines[k + 1])
         THEN [panicked |-> FALSE, added |-> 1]
         ELSE scan_ranges(v, lines, k + 1, divider)

InitDay5 ==
    /\ part = 1
    /\ pc = "start"
    /\ result = 0
    /\ line = 0
    /\ output = <<>>
    /\ input \in Inputs5
    /\ Idle5 /\ Idle6 /\ IdleU /\ IdleP /\ Idle3 /\ Idle2 /\ Idle1 /\ Idle4 /\ IdleR

\* `lines.iter().position(..).unwrap()`.
FindDivider ==
    /\ pc = "start"
    /\ IF position_divider(input) < 0
       THEN pc' = "panicked" /\ UNCHANGED divider_index
       ELSE pc' = "loop" /\ divider_index' = position_divider(input)
    /\ UNCHANGED <<part, input, result, line, output, value, NotDay5>>

\* One iteration of `'id: for id in lines[(divider_index + 1)..]` that
\* completes.
CountId ==
    /\ pc = "loop" /\ line < MaxIds5
    /\ \E text \in IdTexts5 :
         /\ IsNumber(text)
         /\ value' = ParseInt(text)
         /\ LET scan == scan_ranges(ParseInt(text), input, 0, divider_index)
            IN  /\ ~scan.panicked
                /\ result' = result + scan.added
    /\ line' = line + 1
    /\ UNCHANGED <<part, input, pc, output, divider_index, NotDay5>>

\* An iteration that panics: in `id.parse().unwrap()` or in is_id_in_range.
AbortId ==
    /\ pc = "loop" /\ line < MaxIds5
    /\ \E text \in IdTexts5 :
         IF ~IsNumber(text)
         THEN UNCHANGED value
         ELSE /\ value' = ParseInt(text)
              /\ scan_ranges(ParseInt(text), input, 0, divider_index).panicked
    /\ pc' = "panicked"
    /\ UNCHANGED <<part, input, result, line, output, divider_index, NotDay5>>

\* The id lines are exhausted: `result.to_string()`.
Return5 ==
    /\ pc = "loop"
    /\ output' = to_string(result)
    /\ pc' = "done"
    /\ UNCHANGED <<part, input, result, line, vars5, NotDay5>>

NextDay5 == FindDivider \/ CountId \/ AbortId \/ Return5

SpecDay5 == InitDay5 /\ [][NextDay5]_vars

(***************************************************************************)
(* Day 5: claims                                                           *)
(***************************************************************************)

\* The range lines: the lines before the first blank line.
RangeLines ==
    LET blank == CHOOSE k \in 1..Len(input) :
                     input[k] = <<>> /\ \A j \in 1..(k - 1) : input[j] # <<>>
    IN  SubSeq(input, 1, blank - 1)

\* start <= v <= end for the range line "start-end".
Inside(v, text) ==
    \E start \in 0..v : \E end \in v..(10 + MaxVal5) :
        text = to_string(start) \o <<"-">> \o to_string(end)

\* C9: solve starts from 0; every id line adds exactly 1 when its value v
\* has start <= v <= end for at least one range line before the blank line
\* (the ends included, however many ranges hold v) and nothing otherwise;
\* the count so accumulated is the number returned.
C9_CountedOnce ==
    /\ [](line = 0 => result = 0)
    /\ [][(pc = "loop" /\ line' = line + 1)
            => result' = result +
                 (IF \E k \in 1..Len(RangeLines) : Inside(value', RangeLines[k])
                  THEN 1 ELSE 0)]_vars
    /\ [][(pc' = "done")
            => /\ IsNumber(output') /\ ParseInt(output') = result
               /\ result' = result]_vars

\* C9 witness: solve has returned 1 for two id lines, the second of them a
\* two-digit value held by both of two different range lines, and the end
\* of the second.
C9_Witness ==
    /\ pc = "done" /\ line = 2 /\ result = 1
    /\ Len(RangeLines) = 2 /\ RangeLines[1] # RangeLines[2]
    /\ Inside(value, RangeLines[1]) /\ Inside(value, RangeLines[2])
    /\ value >= 10
    /\ RangeLines[2] \in { to_string(a) \o <<"-">> \o to_string(value) : a \in Values5 }
    /\ output = <<"1">>

(***************************************************************************)
(* Day 6: column-wise arithmetic                                           *)
(***************************************************************************)

\* Bounds of the day 6 inputs: at most MaxRows6 rows of numbers above the
\* row of operators, at most MaxCols6 columns, and numbers of at most
\* MaxWidth6 digits, the width their cells are padded to.
MaxRows6 == 2
MaxCols6 == 2
MaxWidth6 == 2

\* The numbers of the inputs: 2, and 13 or 133 .. of the full width.
Values6 == { <<"2">>, [i \in 1..MaxWidth6 |-> IF i = 1 THEN "1" ELSE "3"] }

Operators6 == { "*", "+" }

RECURSIVE Spaces(_)
Spaces(n) == IF n <= 0 THEN <<>> ELSE <<" ">> \o Spaces(n - 1)

\* A number padded to the cell width, to the right or to the left of it.
Cell(text, align) ==
    IF align = "right" THEN Spaces(MaxWidth6 - Len(text)) \o text
    ELSE text \o Spaces(MaxWidth6 - Len(text))

\* The cells of a row, one space between them.
RECURSIVE JoinCells(_)
JoinCells(cells) ==
    IF Len(cells) = 0 THEN <<>>
    ELSE IF Len(cells) = 1 THEN cells[1]
    ELSE cells[1] \o <<" ">> \o JoinCells(Tail(cells))

RECURSIVE SeqsOf(_, _)
SeqsOf(S, n) ==
    IF n = 0 THEN { <<>> }
    ELSE { Append(t, x) : t \in SeqsOf(S, n - 1), x \in S }

\* `input.lines()` of a worksheet: r rows of c numbers, all aligned the same
\* way, above a row of c operators.
Worksheets(r, c) ==
    { [k \in 1..(r + 1) |->
          IF k <= r
          THEN JoinCells([i \in 1..c |-> Cell(rows[k][i], align)])
          ELSE JoinCells([i \in 1..c |-> Cell(<<ops[i]>>, "left")])] :
        rows \in SeqsOf(SeqsOf(Values6, c), r),
        ops \in SeqsOf(Operators6, c),
        align \in { "left", "right" } }

Inputs6 == UNION { Worksheets(r, c) : r \in 0..MaxRows6, c \in 1..MaxCols6 }

\* str::trim: the text without its leading and trailing spaces.
RECURSIVE trim_start(_)
trim_start(text) ==
    IF Len(text) = 0 THEN text
    ELSE IF Head(text) = " " THEN trim_start(Tail(text)) ELSE text

RECURSIVE trim_end(_)
trim_end(text) ==
    IF Len(text) = 0 THEN text
    ELSE IF text[Len(text)] = " " THEN trim_end(SubSeq(text, 1, Len(text) - 1))
    ELSE text

trim(text) == trim_end(trim_start(text))

\* str::parse::<i64>: an optional sign before a non-empty run of digits.
IsI64(text) ==
    IF Len(text) = 0 THEN FALSE
    ELSE IF Head(text) \in { "+", "-" } THEN IsNumber(Tail(text))
    ELSE IsNumber(text)

ParseI64(text) ==
    IF Head(text) = "-" THEN 0 - ParseInt(Tail(text))
    ELSE IF Head(text) = "+" THEN ParseInt(Tail(text))
    ELSE ParseInt(text)

\* `line.split(" ").filter(|x| !x.is_empty())`.
split_fields(text) == SelectSeq(split(text, " "), LAMBDA x : Len(x) > 0)

\* Part 1 extract_columns: the rows of fields, `tmp_read`.
tmp_read(lines) == [k \in 1..Len(lines) |-> split_fields(lines[k])]

\* `columns[i].push(y)` for every field y of the row x.
push_row(cols, x) ==
    [i \in 1..Len(cols) |-> IF i <= Len(x) THEN Append(cols[i], x[i]) ELSE cols[i]]

RECURSIVE push_rows(_, _, _)
push_rows(cols, rows, k) ==
    IF k > Len(rows) THEN cols
    ELSE push_rows(push_row(cols, rows[k]), rows, k + 1)

\* Part 1 extract_columns panics: no first row, or a row with more fields
\* than the first.
extract_columns1_panics(lines) ==
    IF Len(lines) = 0 THEN TRUE
    ELSE \E k \in 1..Len(lines) :
            Len(split_fields(lines[k])) > Len(split_fields(lines[1]))

extract_columns1(lines) ==
    push_rows([i \in 1..Len(tmp_read(lines)[1]) |-> <<>>], tmp_read(lines), 1)

\* Part 2 extract_columns: the offsets of the non-space characters of the
\* last line, `collum_start_indicies`.
collum_start_indicies(last) ==
    SelectSeq([i \in 1..Len(last) |-> i - 1], LAMBDA i : last[i + 1] # " ")

\* `end` of the i-th column (counted from 0).
column_endMutant(starts, i, last) ==
    IF i = Len(starts) - 1 THEN Len(last) ELSE starts[i + 2]

column_end(starts, i, last) ==
    IF i = Len(starts) - 1 THEN Len(last) ELSE starts[i + 2] - 1

\* Part 2 extract_columns panics: no last line, or a slice beyond a line's end.
extract_columns2_panics(lines) ==
    IF Len(lines) = 0 THEN TRUE
    ELSE LET last   == lines[Len(lines)]
             starts == collum_start_indicies(last)
         IN  \E i \in 0..(Len(starts) - 1) : \E k \in 1..Len(lines) :
                column_end(starts, i, last) > Len(lines[k])

extract_columns2(lines) ==
    LET last   == lines[Len(lines)]
        starts == collum_start_indicies(last)
    IN  [i \in 1..Len(starts) |->
            [k \in 1..Len(lines) |->
                Slice(lines[k], starts[i], column_end(starts, i - 1, last))]]

\* The loop `for number in ..` of perform_calculation from the k-th number on.
RECURSIVE calculate_fromMutant(_, _, _, _)
calculate_fromMutant(multiply, res, numbers, k) ==
    IF k > Len(numbers) THEN res
    ELSE calculate_fromMutant(multiply,
             IF multiply THEN res + ParseI64(numbers[k])
             ELSE res * ParseI64(numbers[k]),
             numbers, k + 1)

RECURSIVE calculate_from(_, _, _, _)
calculate_from(multiply, res, numbers, k) ==
    IF k > Len(numbers) THEN res
    ELSE calculate_from(multiply,
             IF multiply THEN res * ParseI64(numbers[k])
             ELSE res + ParseI64(numbers[k]),
             numbers, k + 1)

\* Part 1 perform_calculation panics: an empty column, a number that does
\* not parse, or the slice column[1..0] of a column of one field.
perform_calculation1_panics(col) ==
    IF Len(col) = 0 THEN TRUE
    ELSE IF ~IsI64(col[1]) THEN TRUE
    ELSE IF Len(col) = 1 THEN TRUE
    ELSE \E k \in 2..(Len(col) - 1) : ~IsI64(col[k])

perform_calculation1(col) ==
    LET multiply == col[Len(col)] = <<"*">>
        numbers  == SubSeq(col, 1, Len(col) - 1)
    IN  calculate_from(multiply, ParseI64(numbers[1]), numbers, 2)

\* Part 2 perform_calculation: `numbers[i] = numbers[i] + &line[i..=i]` for
\* every character of the line.
add_lineMutant(numbers, text) ==
    [i \in 1..Len(numbers) |->
        IF i <= Len(text) THEN <<text[i]>> \o numbers[i] ELSE numbers[i]]

add_line(numbers, text) ==
    [i \in 1..Len(numbers) |->
        IF i <= Len(text) THEN Append(numbers[i], text[i]) ELSE numbers[i]]

RECURSIVE add_lines(_, _, _)
add_lines(numbers, lines, k) ==
    IF k > Len(lines) THEN numbers
    ELSE add_lines(add_line(numbers, lines[k]), lines, k + 1)

\* The trimmed `numbers` of a column.
numbers_of(col) ==
    LET numbers == add_lines([i \in 1..Len(col[1]) |-> <<>>],
                             SubSeq(col, 1, Len(col) - 1), 1)
    IN  [i \in 1..Len(numbers) |-> trim(numbers[i])]

\* Part 2 perform_calculation panics: an empty column, a line longer than
\* the first, no number at all, or a number that does not parse.
perform_calculation2_panics(col) ==
    IF Len(col) = 0 THEN TRUE
    ELSE IF \E k \in 1..(Len(col) - 1) : Len(col[k]) > Len(col[1]) THEN TRUE
    ELSE IF Len(col[1]) = 0 THEN TRUE
    ELSE \E i \in 1..Len(col[1]) : ~IsI64(numbers_of(col)[i])

perform_calculation2(col) ==
    LET multiply == trim(col[Len(col)]) = <<"*">>
        numbers  == numbers_of(col)
    IN  calculate_from(multiply, ParseI64(numbers[1]), numbers, 2)

extract_columns_panics(p, lines) ==
    IF p = 1 THEN extract_columns1_panics(lines) ELSE extract_columns2_panics(lines)

extract_columns(p, lines) ==
    IF p = 1 THEN extract_columns1(lines) ELSE extract_columns2(lines)

perform_calculation_panics(p, col) ==
    IF p = 1 THEN perform_calculation1_panics(col) ELSE perform_calculation2_panics(col)

perform_calculation(p, col) ==
    IF p = 1 THEN perform_calculation1(col) ELSE perform_calculation2(col)

InitDay6 ==
    /\ part \in Parts
    /\ pc = "start"
    /\ result = 0
    /\ line = 0
    /\ output = <<>>
    /\ input \in Inputs6
    /\ Idle6 /\ IdleU /\ IdleP /\ Idle5 /\ Idle3 /\ Idle2 /\ Idle1 /\ Idle4 /\ IdleR

\* `extract_columns(input)`.
ExtractColumns ==
    /\ pc = "start"
    /\ IF extract_columns_panics(part, input)
       THEN pc' = "panicked" /\ UNCHANGED columns
       ELSE pc' = "loop" /\ columns' = extract_columns(part, input)
    /\ UNCHANGED <<part, input, result, line, output, column, calculation, NotDay6>>

\* One iteration of `for column in extract_columns(input)` that completes.
Calculate ==
    /\ pc = "loop" /\ line < Len(columns)
    /\ ~perform_calculation_panics(part, columns[line + 1])
    /\ column' = columns[line + 1]
    /\ calculation' = perform_calculation(part, columns[line + 1])
    /\ result' = result + calculation'
    /\ line' = line + 1
    /\ UNCHANGED <<part, input, pc, output, columns, NotDay6>>

\* An iteration in which perform_calculation panics.
AbortCalculate ==
    /\ pc = "loop" /\ line < Len(columns)
    /\ perform_calculation_panics(part, columns[line + 1])
    /\ column' = columns[line + 1]
    /\ pc' = "panicked"
    /\ UNCHANGED <<part, input, result, line, output, columns, calculation, NotDay6>>

\* The columns are exhausted: `result.to_string()`.
Return6 ==
    /\ pc = "loop" /\ line = Len(columns)
    /\ output' = to_string(result)
    /\ pc' = "done"
    /\ UNCHANGED <<part, input, result, line, vars6, NotDay6>>

NextDay6 == ExtractColumns \/ Calculate \/ AbortCalculate \/ Return6

SpecDay6 == InitDay6 /\ [][NextDay6]_vars

(***************************************************************************)
(* Day 6: claims                                                           *)
(***************************************************************************)

\* Where the fields of a row start: a character other than a space, at the
\* head of the row or after a space.
FieldStarts(row) ==
    { j \in 1..Len(row) :
        IF row[j] = " " THEN FALSE ELSE IF j = 1 THEN TRUE ELSE row[j - 1] = " " }

\* The i-th field of a row: from its start to the last character before
\* the next space.
FieldAt(row, i) ==
    LET from == CHOOSE j \in FieldStarts(row) :
                    Cardinality({ x \in FieldStarts(row) : x < j }) = i - 1
        to   == CHOOSE e \in from..Len(row) :
                    /\ \A x \in from..e : row[x] # " "
                    /\ IF e = Len(row) THEN TRUE ELSE row[e + 1] = " "
    IN  SubSeq(row, from, to)

RECURSIVE Product(_)
Product(numbers) ==
    IF Len(numbers) = 0 THEN 1 ELSE Head(numbers) * Product(Tail(numbers))

RECURSIVE Sum(_)
Sum(numbers) ==
    IF Len(numbers) = 0 THEN 0 ELSE Head(numbers) + Sum(Tail(numbers))

\* The numbers of the i-th column of fields: the i-th field of every row
\* above the last.
FieldsAbove(rows, i) ==
    [k \in 1..(Len(rows) - 1) |-> ParseInt(FieldAt(rows[k], i))]

\* The i-th column of fields reduced by the operator in the last row.
FieldColumnResult(rows, i) ==
    IF FieldAt(rows[Len(rows)], i) = <<"*">>
    THEN Product(FieldsAbove(rows, i))
    ELSE Sum(FieldsAbove(rows, i))

\* C11: in part 1, perform_calculation returns for the i-th column the
\* product of the i-th fields of the rows above the last when the i-th field
\* of the last row is '*' and their sum when it is '+'; result is the sum of
\* these over the columns done so far, and solve returns that sum over all
\* the columns.
C11_FieldColumns ==
    (part = 1 /\ pc \in { "loop", "done", "panicked" })
        => /\ \A i \in 1..line :
                FieldAt(input[Len(input)], i) \in { <<"*">>, <<"+">> }
           /\ line >= 1 => calculation = FieldColumnResult(input, line)
           /\ result = Sum([i \in 1..line |-> FieldColumnResult(input, i)])
           /\ pc = "done"
                => /\ line = Cardinality(FieldStarts(input[1]))
                   /\ IsNumber(output) /\ ParseInt(output) = result

\* C11 witness: part 1 has returned 41 for the rows " 2 13" and "13  2"
\* above "*  + ": 2 * 13 for the first column and 13 + 2 for the second.
C11_Witness ==
    /\ part = 1 /\ pc = "done" /\ line = 2
    /\ input = << <<" ", "2", " ", "1", "3">>,
                  <<"1", "3", " ", " ", "2">>,
                  <<"*", " ", " ", "+", " ">> >>
    /\ calculation = 15
    /\ output = <<"4", "1">>

\* A text without the spaces before its first and after its last character
\* other than a space.
Trimmed(text) ==
    LET filled == { x \in 1..Len(text) : text[x] # " " }
    IN  IF filled = {} THEN <<>>
        ELSE SubSeq(text,
                    CHOOSE x \in filled : \A y \in filled : x <= y,
                    CHOOSE x \in filled : \A y \in filled : y <= x)

\* The j-th operand of a column of slices (j counted from 0): the number
\* read from the top down in the characters at offset j of every row but
\* the last, trimmed.
OperandAt(col, j) ==
    ParseInt(Trimmed([k \in 1..(Len(col) - 1) |-> col[k][j + 1]]))

Operands(col) == [i \in 1..Len(col[1]) |-> OperandAt(col, i - 1)]

\* A column of slices reduced by the operator in its last slice.
SliceColumnResult(col) ==
    IF Trimmed(col[Len(col)]) = <<"*">> THEN Product(Operands(col))
    ELSE Sum(Operands(col))

\* C12: in part 2, the slices of a column have one width; perform_calculation
\* returns the product of the column's operands when the trimmed last slice
\* is '*' and their sum when it is '+', the j-th operand being the number
\* read from the top down at offset j of the rows above the last; result is
\* the sum of these over the columns done so far, and solve returns that sum
\* over all the columns.
C12_SliceColumns ==
    (part = 2 /\ pc \in { "loop", "done" })
        => /\ \A i \in 1..line :
                /\ \A k \in 1..Len(columns[i]) : Len(columns[i][k]) = Len(columns[i][1])
                /\ Trimmed(columns[i][Len(columns[i])]) \in { <<"*">>, <<"+">> }
           /\ line >= 1 => /\ column = columns[line]
                           /\ calculation = SliceColumnResult(column)
           /\ result = Sum([i \in 1..line |-> SliceColumnResult(columns[i])])
           /\ pc = "done"
                => /\ line = Len(columns)
                   /\ IsNumber(output) /\ ParseInt(output) = result

\* C12 witness: part 2 has returned 56 for the rows " 2 13" and "13  2"
\* above "*  + ": 1 * 23 for the slices " 2", "13" and 1 + 32 for the
\* slices "13", " 2".
C12_Witness ==
    /\ part = 2 /\ pc = "done" /\ line = 2
    /\ column = << <<"1", "3">>, <<" ", "2">>, <<"+", " ">> >>
    /\ columns[1] = << <<" ", "2">>, <<"1", "3">>, <<"*", " ">> >>
    /\ calculation = 33
    /\ output = <<"5", "6">>

\* The last row of the worksheet and the offsets of its characters other
\* than a space.
LastRow == input[Len(input)]

Boundaries == { o \in 0..(Len(LastRow) - 1) : LastRow[o + 1] # " " }

\* The i-th boundary from the left (i = 1 ..).
BoundaryAt(i) ==
    CHOOSE o \in Boundaries : Cardinality({ x \in Boundaries : x < o }) = i - 1

\* The characters of a text at the offsets from .. to - 1.
CharsAt(text, from, to) == [j \in 1..(to - from) |-> text[from + j]]

\* C22: in part 2, extract_columns returns one column per character of the
\* last row that is no space, from left to right; the i-th holds, for every
\* row, the last included, the characters from the i-th boundary up to two
\* before the next boundary, and the last column those from the last
\* boundary to the end of the last row.
C22_ColumnSlices ==
    (part = 2 /\ pc \in { "loop", "done" })
        => /\ Len(columns) = Cardinality(Boundaries)
           /\ \A i \in 1..Len(columns) :
                /\ Len(columns[i]) = Len(input)
                /\ \A k \in 1..Len(input) :
                     columns[i][k]
                       = CharsAt(input[k], BoundaryAt(i),
                                 IF i = Len(columns) THEN Len(LastRow)
                                 ELSE BoundaryAt(i + 1) - 1)

\* C22 witness: part 2 has cut the rows " 2 13" and "13  2" above "*  + "
\* into the columns " 2", "13", "* " and "13", " 2", "+ ": the space at
\* offset 2 is in neither.
C22_Witness ==
    /\ part = 2 /\ pc = "loop"
    /\ input = << <<" ", "2", " ", "1", "3">>, <<"1", "3", " ", " ", "2">>,
                  <<"*", " ", " ", "+", " ">> >>
    /\ columns = << << <<" ", "2">>, <<"1", "3">>, <<"*", " ">> >>,
                    << <<"1", "3">>, <<" ", "2">>, <<"+", " ">> >> >>

(***************************************************************************)
(* utils: run_puzzle                                                       *)
(***************************************************************************)

\* The days, the file texts and the solver results of the calls.
Days == { 6, 12 }
Contents == { <<"a">>, <<"b">> }
Answers == { <<"0">>, <<"1">> }

\* `solve`: any function of the text that returns a String or panics.
Panic == <<"panic">>
Solvers == [Contents -> Answers \cup { Panic }]

\* format!("{:02}", day) of a day that is not negative.
pad2(n) == IF Len(to_string(n)) < 2 THEN <<"0">> \o to_string(n) ELSE to_string(n)

\* format!("inputs/day{:02}_part{}.txt", day, part).
primary_path(d, p) ==
    <<"i", "n", "p", "u", "t", "s", "/", "d", "a", "y">> \o pad2(d)
        \o <<"_", "p", "a", "r", "t">> \o to_string(p)
        \o <<".", "t", "x", "t">>

\* format!("inputs/day{:02}.txt", day).
secondary_path(d) ==
    <<"i", "n", "p", "u", "t", "s", "/", "d", "a", "y">> \o pad2(d)
        \o <<".", "t", "x", "t">>

\* A path given by the caller, and the primary path without the padding.
CustomPath == <<"i", "n", "p", "u", "t", "s", "/", "d", "a", "y", "0", "1", "_", "e", "x", "a", "m", "p", "l", "e", ".", "t", "x", "t">>
UnpaddedPath(d, p) ==
    <<"i", "n", "p", "u", "t", "s", "/", "d", "a", "y">> \o to_string(d)
        \o <<"_", "p", "a", "r", "t">> \o to_string(p)
        \o <<".", "t", "x", "t">>

PathsOf(d, p) ==
    { primary_path(d, p), secondary_path(d), UnpaddedPath(d, p), CustomPath }

\* What is at a path: nothing, something that cannot be read as text (a
\* directory, a file without permission), or a file with a text.
Absent == <<"absent">>
Unreadable == <<"unreadable">>
FileStates == { Absent, Unreadable } \cup Contents

\* Path::exists.
exists(fs, name) == fs[name] # Absent

\* The choice of `path` without an input_path, <<>> when the function
\* returns the NotFound error instead.
select_pathMutant(d, p, fs) ==
    IF exists(fs, secondary_path(d)) THEN secondary_path(d)
    ELSE IF exists(fs, primary_path(d, p)) THEN primary_path(d, p)
    ELSE <<>>

select_path(d, p, fs) ==
    IF exists(fs, primary_path(d, p)) THEN primary_path(d, p)
    ELSE IF exists(fs, secondary_path(d)) THEN secondary_path(d)
    ELSE <<>>

\* The error of fs::read_to_string at a path that has no text.
read_error(fs, name) ==
    IF fs[name] = Absent THEN "NotFound" ELSE "Other"

\* The io::Result values, and the value of `returned` before the return.
Ok(text) == [kind |-> "Ok", value |-> text]
Err(error) == [kind |-> "Err", value |-> <<error>>]
NotReturned == [kind |-> "none", value |-> <<>>]

InitUtils ==
    /\ day \in Days
    /\ part \in Parts
    /\ input_path \in { <<>>, CustomPath }
    /\ solver \in Solvers
    /\ files \in [PathsOf(day, part) -> FileStates]
    /\ pc = "start"
    /\ path = <<>> /\ reads = <<>> /\ solves = <<>> /\ returned = NotReturned
    /\ input = <<>> /\ result = <<>>
    /\ line = 0 /\ output = <<>>
    /\ IdleP /\ Idle6 /\ Idle5 /\ Idle3 /\ Idle2 /\ Idle1 /\ Idle4 /\ IdleR

\* `let path = ..`: the given path, the first of the two conventional paths
\* that exists, or the return of the NotFound error.
SelectPath ==
    /\ pc = "start"
    /\ IF input_path # <<>>
       THEN /\ path' = input_path
            /\ pc' = "read"
            /\ UNCHANGED returned
       ELSE IF select_path(day, part, files) # <<>>
       THEN /\ path' = select_path(day, part, files)
            /\ pc' = "read"
            /\ UNCHANGED returned
       ELSE /\ returned' = Err("NotFound")
            /\ pc' = "returned"
            /\ UNCHANGED path
    /\ UNCHANGED <<day, part, input_path, solver, files, reads, solves,
                   input, result, NotUtils>>

\* `fs::read_to_string(&path)`: the text, or the return of the error.
ReadInput ==
    /\ pc = "read"
    /\ reads' = Append(reads, path)
    /\ IF files[path] \in Contents
       THEN /\ input' = files[path]
            /\ pc' = "solve"
            /\ UNCHANGED returned
       ELSE /\ returned' = Err(read_error(files, path))
            /\ pc' = "returned"
            /\ UNCHANGED input
    /\ UNCHANGED <<day, part, input_path, solver, files, path, solves,
                   result, NotUtils>>

\* `let result = solve(&input)`.
Solve ==
    /\ pc = "solve"
    /\ solves' = Append(solves, input)
    /\ IF solver[input] = Panic
       THEN pc' = "panicked" /\ UNCHANGED result
       ELSE pc' = "print" /\ result' = solver[input]
    /\ UNCHANGED <<day, part, input_path, solver, files, path, reads,
                   returned, input, NotUtils>>

\* The report on stdout, and `Ok(result)`.
ReturnOk ==
    /\ pc = "print"
    /\ returned' = Ok(result)
    /\ pc' = "returned"
    /\ UNCHANGED <<day, part, input_path, solver, files, path, reads, solves,
                   input, result, NotUtils>>

NextUtils == SelectPath \/ ReadInput \/ Solve \/ ReturnOk

SpecUtils == InitUtils /\ [][NextUtils]_vars

(***************************************************************************)
(* utils: claims                                                           *)
(***************************************************************************)

\* DD of a day below 100: its tens and its units.
TwoDigits(d) == <<DigitChars[(d \div 10) + 1], DigitChars[(d % 10) + 1]>>

\* inputs/day{DD}_part{P}.txt and inputs/day{DD}.txt.
PartFile ==
    <<"i", "n", "p", "u", "t", "s", "/", "d", "a", "y">> \o TwoDigits(day)
        \o <<"_", "p", "a", "r", "t">> \o <<DigitChars[part + 1]>>
        \o <<".", "t", "x", "t">>
DayFile ==
    <<"i", "n", "p", "u", "t", "s", "/", "d", "a", "y">> \o TwoDigits(day)
        \o <<".", "t", "x", "t">>

\* The file of the convention: the part's when it exists, else the day's.
ConventionFile == IF files[PartFile] # Absent THEN PartFile ELSE DayFile

\* C13: without an input path, run_puzzle reads inputs/day{DD}_part{P}.txt
\* when it exists and else inputs/day{DD}.txt when that exists, once and no
\* other file; when neither exists it returns the NotFound error having read
\* no file and not called the solver; and when the read succeeds, what it
\* returns is Ok of the solver's result for the file's text, the solver
\* having been called once with that text.
C13_ConventionalInput ==
    (input_path = <<>>)
        => /\ Len(reads) <= 1 /\ Len(solves) <= 1
           /\ (files[PartFile] = Absent /\ files[DayFile] = Absent)
                => /\ reads = <<>> /\ solves = <<>>
                   /\ pc \in { "start", "returned" }
                   /\ pc = "returned" => returned = Err("NotFound")
           /\ (files[PartFile] # Absent \/ files[DayFile] # Absent)
                => /\ pc # "start" => path = ConventionFile
                   /\ pc \notin { "start", "read" } => reads = <<ConventionFile>>
                   /\ (pc = "returned" /\ files[ConventionFile] \in Contents)
                        => /\ returned = Ok(solver[files[ConventionFile]])
                           /\ solves = <<files[ConventionFile]>>
                   /\ files[ConventionFile] \notin Contents => solves = <<>>
           /\ returned.kind = "Ok"
                => /\ reads = <<ConventionFile>>
                   /\ returned.value = solver[files[ConventionFile]]

\* C13 witness: for day 6, with no inputs/day06_part1.txt but texts in
\* inputs/day06.txt and in inputs/day6_part1.txt that the solver tells
\* apart, run_puzzle has returned Ok of the result for inputs/day06.txt.
C13_Witness ==
    /\ input_path = <<>> /\ day = 6 /\ part = 1
    /\ files[PartFile] = Absent
    /\ files[DayFile] = <<"b">>
    /\ files[UnpaddedPath(day, part)] = <<"a">>
    /\ solver[<<"a">>] # solver[<<"b">>]
    /\ pc = "returned"
    /\ reads = << <<"i", "n", "p", "u", "t", "s", "/", "d", "a", "y", "0", "6", ".", "t", "x", "t">> >>
    /\ returned = Ok(solver[<<"b">>])

====
